---- MODULE Spec2Model ----
(***************************************************************************)
(* Model of the search and learning engine of smart-question-paper:        *)
(*   - State / Action objects and Environment.step        (src/agent.py)   *)
(*   - QFunction.rollout, the beam-search rollout     (src/q_function.py)  *)
(*   - BeamSearchIterativeDeepening.beam_search           (src/agent.py)   *)
(*   - QLearning.learn_from_environment                   (src/agent.py)   *)
(* Objects live in two heaps (states, acts); an object's identity is its   *)
(* index in the heap, 0 stands for None.                                   *)
(***************************************************************************)
EXTENDS Integers, Sequences, FiniteSets, TLC

(* ---------------- bounds of the model ---------------- *)
MaxSteps == 3
MaxBeam == 2
MaxObj == 5
MaxDepth == 4
MaxBuf == 2
MaxBudget == 3
MaxEvery == 2
MaxRunDepth == 2

Facts == {"a", "b"}

VARIABLES
    states,        \* heap of State objects: [facts, goals, value, parent_action]
    acts,          \* heap of Action objects: [state, action, next_state, reward, value]
    environment,   \* which environment object rollout was given
    transform,     \* get_aggregation_transform of the value function: "log" | "identity"
    max_steps,     \* rollout parameter
    beam_size,     \* rollout parameter
    pc,            \* position of rollout: "loop" | "done"
    i,             \* loop counter of rollout
    beam,          \* rollout local: sequence of State ids
    history,       \* rollout local: sequence of layers
    seen,          \* rollout local: Python set of State objects
    success,       \* rollout local
    rewards,       \* rollout local: rewards of the last step call
    actions,       \* rollout local: flattened actions of the last step call
    step_calls,    \* number of environment.step calls made by rollout
    q_calls,       \* number of value-function calls made by rollout
    open_env,      \* every round so far: no reward, and an unseen successor offered
    q_values,      \* rollout local: scores of the last value-function call
    \* --- BeamSearchIterativeDeepening ---
    bs_pc,                     \* "off" | "new" | "TypeError" | "idle" | "loop" | "raised"
    replay_buffer_size,        \* config['replay_buffer_size'], a JSON value
    replay_buffer_pos,         \* deque of (state, action, reward)
    replay_buffer_neg,         \* deque of (state, action, reward)
    current_depth,
    agent_beam_size,           \* self.beam_size
    reward_decay,              \* numerator p of the decay p/2
    discard_unsolved_problems,
    add_success_action,
    bs_i,                      \* beam_search local i
    bs_beam,                   \* beam_search local beam
    states_by_id,              \* beam_search local: keys of the dict
    state_parent_edge,         \* beam_search local: dict, in insertion order
    solution,                  \* beam_search local: 0 is None
    action_reward,             \* beam_search local: dict id(a) -> reward
    first_act,                 \* history: size of the acts heap when the search began
    searches,                  \* history: number of beam_search calls begun
    \* --- QLearning ---
    ql_pc,           \* "off" | "new" | "generate" | "episode" | "raised"
    ql_buffer_size,  \* self.replay_buffer_size
    ql_max_depth,    \* self.max_depth
    ql_batch_size,   \* self.batch_size
    replay_buffer,   \* deque of QReplayBufferTuple (a0, r, A1)
    ql_j,            \* learn_from_environment local j
    ql_actions,      \* learn_from_environment local actions
    appended,        \* history: every tuple appended to replay_buffer, in order
    \* --- EnvironmentWithEvaluationProxy and a whole run of evaluate_agent ---
    agent,             \* config['agent']['type']
    proxy,             \* the fields of the EnvironmentWithEvaluationProxy object
    files,             \* the results logs on disk: path -> number of results kept
    ea_pc,             \* position of evaluate_agent and of the agent it runs
    exc,               \* the exception being raised, "" for none
    depths,            \* the agent's initial_depth, max_depth, depth_step, step_every
    lfe_i,             \* learn_from_environment local i (as far as the code reads it)
    beam_len,          \* len(beam) of the search of a whole run
    step_result,       \* history: how the last call of proxy.step ended
    forwarded,         \* history: number of states handed to environment.step
    learn_calls,       \* history: calls of learn_from_environment
    experience_calls,  \* history: calls of learn_from_experience
    final_evaluations, \* history: evaluations run by the EndOfLearning handler
    io_failed,         \* history: writing the log or saving a checkpoint failed
    env_failed,        \* history: a call of the environment did not return
    \* --- QFunction.recover_solutions ---
    rec_pc,            \* "off" | "for" | "while" | "returned" | "IndexError"
    solution_states,   \* recover_solutions local
    rec_k,             \* how many elements of solution_states the for loop has taken
    rec_s,             \* recover_solutions local s
    rec_solution,      \* recover_solutions local solution
    solutions,         \* recover_solutions local
    \* --- SuccessRatePolicyEvaluator ---
    ev_pc,               \* "off" | "for" | "rollout" | "returned" | "ZeroDivisionError"
    seed,                \* self.seed
    n_problems,          \* self.n_problems
    ev_i,                \* evaluate local i
    problem,             \* evaluate local: the problems are numbered as generated
    successes,           \* evaluate local
    failures,            \* evaluate local
    max_solution_length, \* evaluate local
    success_rate,        \* the returned ratio, as numerator and denominator
    seeds,               \* history: the seed argument of every generate_new call
    rollouts,            \* history: number of rollout calls
    flags,               \* history: the success flag every rollout returned
    \* --- gradient_steps of BeamSearchIterativeDeepening ---
    full_imitation_learning,
    balance_examples,
    n_examples,          \* len(replay_buffer_pos), len(replay_buffer_neg), in a whole run
    updated,             \* history: optimizer steps were taken, by the phase of the run
    n_new_problems,      \* proxy field
    cumulative_reward,   \* proxy field
    eval_config,         \* proxy field: the configuration of its evaluators
    evaluation,          \* the call of proxy.evaluate that is running, if any
    pending,             \* len(states) of the call of proxy.step that waits for evaluate
    last_evaluation,     \* history: the evaluation that returned last, and by how much the
                         \* proxy's counters were greater after it than before it
    nested,              \* history: evaluate was called while evaluate was running
    eol_in_eval          \* history: a call made by the evaluator raised EndOfLearning

heap == <<states, acts>>

rvars == <<environment, transform, max_steps, beam_size, pc, i, beam, history, seen,
           success, rewards, actions, step_calls, q_calls, open_env, q_values>>

bconf == <<replay_buffer_size, current_depth, agent_beam_size, reward_decay,
           discard_unsolved_problems, add_success_action>>

blocals == <<bs_i, bs_beam, states_by_id, state_parent_edge, solution, action_reward,
             first_act>>

bvars == <<bs_pc, bconf, blocals, replay_buffer_pos, replay_buffer_neg, searches>>

qvars == <<ql_pc, ql_buffer_size, ql_max_depth, ql_batch_size, replay_buffer, ql_j,
           ql_actions, appended>>

evars == <<agent, proxy, files, ea_pc, exc, depths, lfe_i, beam_len, step_result,
           forwarded, learn_calls, experience_calls, final_evaluations, io_failed,
           env_failed>>

cvars == <<rec_pc, solution_states, rec_k, rec_s, rec_solution, solutions>>

\* What a whole run leaves alone besides the rollout and the agents' objects.
pvars == <<ev_pc, seed, n_problems, ev_i, problem, successes, failures,
           max_solution_length, success_rate, seeds, rollouts, flags>>

\* The proxy, with its evaluations followed call by call.
tvars == <<n_new_problems, cumulative_reward, eval_config, evaluation, pending, last_evaluation,
           nested, eol_in_eval>>

yvars == <<cvars, pvars, tvars>>

gvars == <<full_imitation_learning, balance_examples, n_examples, updated>>

\* Everything outside the rollout and the two agents.
xvars == <<evars, yvars, gvars>>

vars == <<heap, rvars, bvars, qvars, xvars>>

(* ---------------- helpers on sequences ---------------- *)
Range(s) == {s[k] : k \in 1..Len(s)}

Min2(a, b) == IF a < b THEN a ELSE b

SeqsUpTo(S, n) == UNION {[1..k -> S] : k \in 0..n}

(* ---------------- State (agent.py 30-44) ---------------- *)
\* State.__init__: facts and goals are tuples, value and parent_action stored.
State(facts, goals, value, parent_action) ==
    [facts |-> facts, goals |-> goals, value |-> value, parent_action |-> parent_action]

\* State.__hash__: hash(self.facts).
StateHash(st, s) == st[s].facts

\* State defines no __eq__: Python compares the objects by identity.
StateEq(st, s1, s2) == s1 = s2

\* Membership of a Python set of State objects: same hash and equal.
InSet(st, s, S) == \E x \in S : StateHash(st, x) = StateHash(st, s) /\ StateEq(st, x, s)

\* Action.__init__ (value defaults to 0.0).
Action(state, action, next_state, reward, value) ==
    [state |-> state, action |-> action, next_state |-> next_state,
     reward |-> reward, value |-> value]

(* ---------------- Environment.step (agent.py 173-193) ---------------- *)
\* One entry of the server's response: [success, actions], actions being the
\* sequence of resulting facts (a['state']); the action label is that fact too.
\* A state has at most one move per fact of the domain, listed in any order
\* and possibly twice.
ResponseEntries == [success : BOOLEAN, actions : SeqsUpTo(Facts, Cardinality(Facts))]

\* The responses to a request of n states that list at most cap actions in all
\* (cap: the room left in the heap of the model).
RECURSIVE Responses(_, _)
Responses(n, cap) ==
    IF n = 0 THEN {<<>>}
    ELSE UNION {{<<e>> \o r : r \in Responses(n - 1, cap - Len(e.actions))} :
                  e \in {e \in ResponseEntries : Len(e.actions) <= cap}}

\* rewards = [int(r['success']) for r in response]
Rewards(resp) == [k \in 1..Len(resp) |-> IF resp[k].success THEN 1 ELSE 0]

\* The (source state, resulting fact) pairs of a response, in the order the
\* nested list comprehension builds the actions.
RECURSIVE Flatten(_, _, _)
Flatten(ss, resp, k) ==
    IF k > Len(resp) THEN <<>>
    ELSE [j \in 1..Len(resp[k].actions) |-> [src |-> ss[k], fact |-> resp[k].actions[j]]]
         \o Flatten(ss, resp, k + 1)

\* Environment.step builds State(state.facts + (a['state'],), ...).
EnvironmentFacts(facts, fact) == Append(facts, fact)

\* rollout takes any object with a step method.  The environment module that
\* q_function.py imports is not part of the sources; an environment with
\* reversible moves, which reports the resulting description alone, stands
\* for the environments in which a fact sequence can come back.
ReversibleFacts(facts, fact) == <<fact>>

\* Facts of the State built for an action, by kind of environment.
NextFacts(env, facts, fact) ==
    IF env = "Environment" THEN EnvironmentFacts(facts, fact)
    ELSE ReversibleFacts(facts, fact)

StepStates_Unlinked(env, st, ac, ss, resp) ==
    LET flat == Flatten(ss, resp, 1)
        rw == Rewards(resp)
    IN [s \in 1..Len(st) |->
          IF \E k \in 1..Len(ss) : ss[k] = s
          THEN [st[s] EXCEPT !.value =
                  rw[CHOOSE k \in 1..Len(ss) :
                       ss[k] = s /\ \A k2 \in (k+1)..Len(ss) : ss[k2] # s]]
          ELSE st[s]]
       \o [j \in 1..Len(flat) |->
             State(NextFacts(env, st[flat[j].src].facts, flat[j].fact),
                   st[flat[j].src].goals, 0, 0)]

\* Heap of states after step: every input state's value becomes its reward,
\* one new State per action with value 0.0 and parent_action its action.
StepStates(env, st, ac, ss, resp) ==
    LET flat == Flatten(ss, resp, 1)
        rw == Rewards(resp)
        upd == [s \in 1..Len(st) |->
                  IF \E k \in 1..Len(ss) : ss[k] = s
                  THEN [st[s] EXCEPT !.value =
                          rw[CHOOSE k \in 1..Len(ss) :
                               ss[k] = s /\ \A k2 \in (k+1)..Len(ss) : ss[k2] # s]]
                  ELSE st[s]]
    IN upd \o [j \in 1..Len(flat) |->
                 State(NextFacts(env, st[flat[j].src].facts, flat[j].fact),
                       st[flat[j].src].goals, 0, Len(ac) + j)]

\* Heap of actions after step: one new Action per response action.
StepActs(st, ac, ss, resp) ==
    LET flat == Flatten(ss, resp, 1)
    IN ac \o [j \in 1..Len(flat) |->
                Action(flat[j].src, flat[j].fact, Len(st) + j, 0, 0)]

\* The flattened list of the actions step returned (ids in the acts heap).
StepActionIds(ac, ss, resp) ==
    [j \in 1..Len(Flatten(ss, resp, 1)) |-> Len(ac) + j]

(* ---------------- value function ---------------- *)
\* Scores the value function can return.  Under the log transform a score is
\* a probability 1/d, written as its denominator d; under the identity
\* transform it is the (unbounded) score itself.
Scores(t) == IF t = "log" THEN {1, 2} ELSE {-1, 1}

\* math.log of the probability 1/d, in units of log 2.
RECURSIVE LogT(_)
LogT(d) == IF d <= 1 THEN 0 ELSE LogT(d \div 2) - 1

\* get_aggregation_transform: math.log by default, identity for Bilinear.
AggregationTransform(t, v) == IF t = "log" THEN LogT(v) ELSE v

(* ---------------- QFunction.rollout (q_function.py 27-75) ---------------- *)
LoopRuns_OffByOne(k, n) == k <= n

\* for i in range(max_steps)
LoopRuns(k, n) == k < n

AnyReward_FirstOnly(rw) == rw[1] # 0

\* if max(rewards): some state of the beam reported a reward.
AnyReward(rw) == \E k \in 1..Len(rw) : rw[k] # 0

NoActions_Ignored(acs) == FALSE

\* if len(actions) == 0
NoActions(acs) == Len(acs) = 0

\* for a, v in zip(actions, q_values): a.next_state.value = a.state.value + t(v)
RECURSIVE AssignValues(_, _, _, _, _)
AssignValues(st, ac, acs, qv, t) ==
    IF acs = <<>> THEN st
    ELSE LET a == ac[Head(acs)]
             st1 == [st EXCEPT ![a.next_state].value =
                        st[a.state].value + AggregationTransform(t, Head(qv))]
         IN AssignValues(st1, ac, Tail(acs), Tail(qv), t)

\* set([a.next_state for a in actions]) - seen
Candidates(st, ac, acs, sn) ==
    LET next == {ac[acs[k]].next_state : k \in 1..Len(acs)}
        \* building the set keeps one object of each class of equal objects
        distinct == {s \in next : \A s2 \in next : StateEq(st, s, s2) => s2 >= s}
    IN {s \in distinct : ~InSet(st, s, sn)}

\* list(S) followed by the stable sort by value, descending: the set's
\* iteration order is arbitrary, so states of equal value come in any order.
RECURSIVE SortedLists(_, _)
SortedLists(st, S) ==
    IF S = {} THEN {<<>>}
    ELSE LET best == {s \in S : \A s2 \in S : st[s].value >= st[s2].value}
         IN UNION {{<<s>> \o rest : rest \in SortedLists(st, S \ {s})} : s \in best}

NewBeam_All(ns, n) == ns

\* beam = ns[:beam_size]
NewBeam(ns, n) == SubSeq(ns, 1, Min2(n, Len(ns)))

\* history.append(ns)
HistoryLayer(ns, bm) == ns

\* seen.update(ns)
SeenUpdate(st, sn, ns) == sn \cup {s \in Range(ns) : ~InSet(st, s, sn)}

\* State after lines 35-39: the root comes from generate_new (value 0.0, no parent).
RolloutInit ==
    /\ states = <<State(<<"a">>, <<"g">>, 0, 0)>>
    /\ acts = <<>>
    /\ environment \in {"Environment", "Reversible"}
    /\ transform \in {"log", "identity"}
    /\ max_steps \in 0..MaxSteps
    /\ beam_size \in 1..MaxBeam
    /\ pc = "loop"
    /\ i = 0
    /\ beam = <<1>>
    /\ history = <<beam>>
    /\ seen = {1}
    /\ success = FALSE
    /\ rewards = <<>>
    /\ actions = <<>>
    /\ step_calls = 0
    /\ q_calls = 0
    /\ open_env = TRUE
    /\ q_values = <<>>

\* One pass through the body of the loop (lines 45-73).
RolloutRound ==
    /\ pc = "loop"
    /\ LoopRuns(i, max_steps)
    /\ beam # <<>>
    /\ \E resp \in Responses(Len(beam), MaxObj - Len(states)) :
         /\ LET st1 == StepStates(environment, states, acts, beam, resp)
                ac1 == StepActs(states, acts, beam, resp)
                acs == StepActionIds(acts, beam, resp)
                rw == Rewards(resp)
            IN /\ rewards' = rw
               /\ actions' = acs
               /\ acts' = ac1
               /\ step_calls' = step_calls + 1
               /\ IF AnyReward(rw)
                  THEN /\ success' = TRUE
                       /\ pc' = "done"
                       /\ states' = st1
                       /\ open_env' = FALSE
                       /\ q_values' = q_values
                       /\ UNCHANGED <<i, beam, history, seen, q_calls>>
                  ELSE IF NoActions(acs)
                  THEN /\ success' = FALSE
                       /\ pc' = "done"
                       /\ states' = st1
                       /\ open_env' = FALSE
                       /\ q_values' = q_values
                       /\ UNCHANGED <<i, beam, history, seen, q_calls>>
                  ELSE \E qv \in [1..Len(acs) -> Scores(transform)] :
                         LET st2 == AssignValues(st1, ac1, acs, qv, transform)
                             cand == Candidates(st2, ac1, acs, seen)
                         IN \E ns \in SortedLists(st2, cand) :
                              /\ states' = st2
                              /\ q_calls' = q_calls + 1
                              /\ q_values' = qv
                              /\ beam' = NewBeam(ns, beam_size)
                              /\ history' = Append(history, HistoryLayer(ns, beam'))
                              /\ seen' = SeenUpdate(st2, seen, ns)
                              /\ i' = i + 1
                              /\ open_env' = (open_env /\ cand # {})
                              /\ UNCHANGED <<success, pc>>
    /\ UNCHANGED <<environment, transform, max_steps, beam_size>>
    /\ UNCHANGED <<bvars, qvars>>
    /\ UNCHANGED xvars

\* The loop ends (range exhausted, or "if not beam: break") and rollout returns.
RolloutReturn ==
    /\ pc = "loop"
    /\ (~LoopRuns(i, max_steps) \/ beam = <<>>)
    /\ pc' = "done"
    /\ UNCHANGED <<states, acts, environment, transform, max_steps, beam_size, i, beam,
                   history, seen, success, rewards, actions, step_calls, q_calls,
                   open_env, q_values>>
    /\ UNCHANGED <<bvars, qvars>>
    /\ UNCHANGED xvars

\* The agent is not part of a run of rollout alone.
BeamSearchOff ==
    /\ bs_pc = "off"
    /\ replay_buffer_size = [kind |-> "int", n |-> 0]
    /\ replay_buffer_pos = <<>>
    /\ replay_buffer_neg = <<>>
    /\ current_depth = 0
    /\ agent_beam_size = 1
    /\ reward_decay = 2
    /\ discard_unsolved_problems = FALSE
    /\ add_success_action = FALSE
    /\ bs_i = 0
    /\ bs_beam = <<>>
    /\ states_by_id = {}
    /\ state_parent_edge = <<>>
    /\ solution = 0
    /\ action_reward = <<>>
    /\ first_act = 0
    /\ searches = 0

QLearningOff ==
    /\ ql_pc = "off"
    /\ ql_buffer_size = 0
    /\ ql_max_depth = 0
    /\ ql_batch_size = 1
    /\ replay_buffer = <<>>
    /\ ql_j = 0
    /\ ql_actions = <<>>
    /\ appended = <<>>

\* No proxy and no evaluate_agent in a run of rollout or of an agent alone.
RunOff ==
    /\ agent = "none"
    /\ proxy = [n_steps |-> 0, evaluate_every |-> 1, max_steps |-> 0, output_path |-> "results",
                n_checkpoints |-> 0, experiment_id |-> "unset", n_evaluations |-> 0]
    /\ files = [f \in {"results"} |-> 0 - 1]
    /\ ea_pc = "off"
    /\ exc = ""
    /\ depths = [initial_depth |-> 0, max_depth |-> 0, depth_step |-> 0, step_every |-> 1]
    /\ lfe_i = 0
    /\ beam_len = 0
    /\ step_result = ""
    /\ forwarded = 0
    /\ learn_calls = 0
    /\ experience_calls = 0
    /\ final_evaluations = 0
    /\ io_failed = FALSE
    /\ env_failed = FALSE

\* recover_solutions is not called.
RecoverOff ==
    /\ rec_pc = "off"
    /\ solution_states = <<>>
    /\ rec_k = 0
    /\ rec_s = 0
    /\ rec_solution = <<>>
    /\ solutions = <<>>

\* No evaluator.
EvaluatorOff ==
    /\ ev_pc = "off"
    /\ seed = 0
    /\ n_problems = 0
    /\ ev_i = 0
    /\ problem = 0
    /\ successes = <<>>
    /\ failures = <<>>
    /\ max_solution_length = 0
    /\ success_rate = [num |-> 0, den |-> 1]
    /\ seeds = <<>>
    /\ rollouts = 0
    /\ flags = <<>>

\* gradient_steps of BeamSearchIterativeDeepening is not followed: the flags
\* at their defaults (lines 416, 424).
GradientOff ==
    /\ full_imitation_learning = FALSE
    /\ balance_examples = TRUE
    /\ n_examples = [pos |-> 0, neg |-> 0]
    /\ updated = [environment |-> FALSE, experience |-> FALSE]

\* The counters of the proxy.
Counters(n, p, r) == [n_steps |-> n, n_new_problems |-> p, cumulative_reward |-> r]

\* No call of proxy.evaluate is running.
NoEvaluation ==
    [caller |-> "none", i |-> 0, rolling |-> FALSE, t |-> 0, calls |-> 0,
     before |-> Counters(0, 0, 0)]

\* The evaluations of the proxy are not followed call by call.
ProxyCallsOff ==
    /\ n_new_problems = 0
    /\ cumulative_reward = 0
    /\ eval_config = [n_problems |-> 0, max_steps |-> 0, beam_size |-> 1]
    /\ evaluation = NoEvaluation
    /\ pending = 0
    /\ last_evaluation = [caller |-> "none", stepped |-> FALSE, grown |-> Counters(0, 0, 0)]
    /\ nested = FALSE
    /\ eol_in_eval = FALSE

LaterOff == RecoverOff /\ EvaluatorOff /\ GradientOff /\ ProxyCallsOff

\* The parts of the program that a specification leaves out.
OthersOff == RunOff /\ LaterOff

Init == RolloutInit /\ BeamSearchOff /\ QLearningOff /\ OthersOff

Next == RolloutRound \/ RolloutReturn

Spec == Init /\ [][Next]_vars

(* ---------------- collections.deque ---------------- *)
\* maxlen of a deque built without one.
NoMaxlen == 0 - 1

\* collections.deque(v): v must be iterable; an int raises TypeError.
DequeArgOk(v) == v.kind = "list"

DequeAppend_Unbounded(d, x, maxlen) == Append(d, x)

\* deque.append: a full bounded deque drops its oldest entry first.
DequeAppend(d, x, maxlen) ==
    IF maxlen = NoMaxlen THEN Append(d, x)
    ELSE IF maxlen = 0 THEN d
    ELSE IF Len(d) >= maxlen THEN Append(Tail(d), x)
    ELSE Append(d, x)

(* ---------------- BeamSearchIterativeDeepening (agent.py 402-539) ---------------- *)
RECURSIVE Pow(_, _)
Pow(b, e) == IF e = 0 THEN 1 ELSE b * Pow(b, e - 1)

\* Rewards are floats k / 2^MaxDepth, written as the integer k.
RewardUnit == Pow(2, MaxDepth)

\* current_reward *= self.reward_decay, the decay being reward_decay / 2.
Decayed(r, p) == (r * p) \div 2

\* SUCCESS_STATE = State(['success'], [], 1.0), the first object of the heap
\* in a run of the agent.
SUCCESS_STATE == 1

\* Environment.generate_new: State(response['state'], response['goals'], 0.0)
NewProblem == State(<<"a">>, <<"g">>, 0, 0)

\* The values config['replay_buffer_size'] takes: a number, or (any JSON
\* value being accepted) the empty list.
BufferSizes == {[kind |-> "int", n |-> n] : n \in 0..MaxBuf} \cup {[kind |-> "list", n |-> 0]}

\* The entry of a dict kept as a sequence of [key, ...] records, in insertion order.
HasKey(d, key) == \E k \in 1..Len(d) : d[k].key = key

Lookup(d, key) == d[CHOOSE k \in 1..Len(d) : d[k].key = key]

\* d[key] = entry: a new key goes last, an old key keeps its place.
DictSet(d, entry) ==
    IF HasKey(d, entry.key)
    THEN [k \in 1..Len(d) |-> IF d[k].key = entry.key THEN entry ELSE d[k]]
    ELSE Append(d, entry)

\* Lines 477-481: state_parent_edge[id(a.next_state)] = (s, a) for every action.
RECURSIVE RememberEdges(_, _, _)
RememberEdges(spe, ac, acs) ==
    IF acs = <<>> THEN spe
    ELSE RememberEdges(
           DictSet(spe, [key |-> ac[Head(acs)].next_state, tuple |-> TRUE,
                         parent |-> ac[Head(acs)].state, a |-> Head(acs)]),
           ac, Tail(acs))

\* The beam states that reported a reward, in beam order.
Solved(bm, rw) == SelectSeq([k \in 1..Len(bm) |-> IF rw[k] # 0 THEN bm[k] ELSE 0],
                            LAMBDA x : x # 0)

\* Lines 483-493 without add_success_action: solution = s, the last one stands.
SolutionOf(bm, rw, old) ==
    IF Solved(bm, rw) = <<>> THEN old ELSE Solved(bm, rw)[Len(Solved(bm, rw))]

\* Lines 484-491: one Action(s, 'success', SUCCESS_STATE, 1.0, 1.0) per solved
\* state, stored in place of an (s, a) pair.
SuccessActs(ac, bm, rw) ==
    ac \o [k \in 1..Len(Solved(bm, rw)) |->
             Action(Solved(bm, rw)[k], "success", SUCCESS_STATE, RewardUnit, RewardUnit)]

SuccessEdge(ac, bm, rw) ==
    [key |-> SUCCESS_STATE, tuple |-> FALSE, parent |-> 0,
     a |-> Len(ac) + Len(Solved(bm, rw))]

\* Lines 498-505: the walk back from the solution.  "prev_s, a = ..." raises
\* TypeError on an entry that is no pair.
RECURSIVE WalkRaises(_, _)
WalkRaises(spe, current) ==
    /\ HasKey(spe, current)
    /\ (~Lookup(spe, current).tuple \/ WalkRaises(spe, Lookup(spe, current).parent))

RECURSIVE WalkRewards(_, _, _, _, _)
WalkRewards(spe, current, current_reward, ar, p) ==
    IF ~HasKey(spe, current) THEN ar
    ELSE LET e == Lookup(spe, current)
             ar1 == [x \in DOMAIN ar \cup {e.a} |-> IF x = e.a THEN current_reward ELSE ar[x]]
         IN WalkRewards(spe, e.parent, Decayed(current_reward, p), ar1, p)

\* Lines 519-520: a.value = v.
RECURSIVE SetActionValues(_, _, _)
SetActionValues(ac, acs, qv) ==
    IF acs = <<>> THEN ac
    ELSE SetActionValues([ac EXCEPT ![Head(acs)].value = Head(qv)], Tail(acs), Tail(qv))

\* Lines 523-527: ns.value = s.value + math.log(a.value).
RECURSIVE SetNextValues(_, _, _)
SetNextValues(st, ac, acs) ==
    IF acs = <<>> THEN st
    ELSE LET a == ac[Head(acs)]
         IN SetNextValues([st EXCEPT ![a.next_state].value = st[a.state].value + LogT(a.value)],
                          ac, Tail(acs))

\* list.sort(key=value, reverse=True): stable, equal values keep their order.
RECURSIVE InsertDesc(_, _, _)
InsertDesc(st, sorted, x) ==
    IF sorted = <<>> THEN <<x>>
    ELSE IF st[Head(sorted)].value >= st[x].value
         THEN <<Head(sorted)>> \o InsertDesc(st, Tail(sorted), x)
         ELSE <<x>> \o sorted

RECURSIVE StableSortDesc(_, _, _)
StableSortDesc(st, todo, sorted) ==
    IF todo = <<>> THEN sorted
    ELSE StableSortDesc(st, Tail(todo), InsertDesc(st, sorted, Head(todo)))

\* r = action_reward.get(id(a), 0.0)
RewardOf(ar, a) == IF a \in DOMAIN ar THEN ar[a] ELSE 0

\* Lines 533-537: every remembered edge becomes an example of one buffer.
RECURSIVE Recorded(_, _, _, _)
Recorded(spe, ar, bufs, positive) ==
    IF spe = <<>> THEN bufs
    ELSE LET e == Head(spe)
             r == RewardOf(ar, e.a)
         IN Recorded(Tail(spe), ar,
                     IF (r > 0) = positive
                     THEN DequeAppend(bufs, <<e.key, e.a, r>>, NoMaxlen) ELSE bufs,
                     positive)

RecordsExperience(sol, discard) == sol # 0 \/ ~discard

\* The rollout is not part of a run of the agent.
RolloutOff ==
    /\ environment = "Environment"
    /\ transform = "log"
    /\ max_steps = 0
    /\ beam_size = 1
    /\ pc = "off"
    /\ i = 0
    /\ beam = <<>>
    /\ history = <<>>
    /\ seen = {}
    /\ success = FALSE
    /\ rewards = <<>>
    /\ actions = <<>>
    /\ step_calls = 0
    /\ q_calls = 0
    /\ open_env = TRUE
    /\ q_values = <<>>

\* The configuration of the agent, before __init__ runs.
BeamSearchConfig ==
    /\ bs_pc = "new"
    /\ replay_buffer_size \in BufferSizes
    /\ replay_buffer_pos = <<>>
    /\ replay_buffer_neg = <<>>
    /\ current_depth \in 1..MaxDepth
    /\ agent_beam_size \in 1..MaxBeam
    /\ reward_decay \in {1, 2}
    /\ discard_unsolved_problems \in BOOLEAN
    /\ add_success_action \in BOOLEAN
    /\ bs_i = 0
    /\ bs_beam = <<>>
    /\ states_by_id = {}
    /\ state_parent_edge = <<>>
    /\ solution = 0
    /\ action_reward = <<>>
    /\ first_act = 0
    /\ searches = 0

InitBS ==
    /\ states = <<State(<<"success">>, <<>>, RewardUnit, 0)>>
    /\ acts = <<>>
    /\ RolloutOff
    /\ BeamSearchConfig
    /\ QLearningOff
    /\ OthersOff

\* __init__ (lines 403-428): the buffers are built by
\* collections.deque(self.replay_buffer_size).
BSInit ==
    /\ bs_pc = "new"
    /\ bs_pc' = IF DequeArgOk(replay_buffer_size) THEN "idle" ELSE "TypeError"
    /\ UNCHANGED <<heap, rvars, bconf, blocals, replay_buffer_pos, replay_buffer_neg,
                   searches, qvars>>
    /\ UNCHANGED xvars

\* learn_from_environment line 446 and beam_search lines 468-472.
BSStart ==
    /\ bs_pc = "idle"
    /\ Len(states) < MaxObj
    /\ states' = Append(states, NewProblem)
    /\ bs_pc' = "loop"
    /\ bs_i' = 0
    /\ bs_beam' = <<Len(states) + 1>>
    /\ states_by_id' = {Len(states) + 1}
    /\ state_parent_edge' = <<>>
    /\ solution' = 0
    /\ action_reward' = <<>>
    /\ first_act' = Len(acts)
    /\ searches' = searches + 1
    /\ UNCHANGED <<acts, rvars, bconf, replay_buffer_pos, replay_buffer_neg, qvars>>
    /\ UNCHANGED xvars

\* One pass through the body of the loop of beam_search (lines 475-530); a
\* pass that breaks goes on to lines 532-539.
BSRound ==
    /\ bs_pc = "loop"
    /\ LoopRuns(bs_i, current_depth)
    /\ \E resp \in Responses(Len(bs_beam), MaxObj - Len(states)) :
         LET st1 == StepStates("Environment", states, acts, bs_beam, resp)
             ac1 == StepActs(states, acts, bs_beam, resp)
             acs == StepActionIds(acts, bs_beam, resp)
             rw == Rewards(resp)
             spe1 == RememberEdges(state_parent_edge, ac1, acs)
             ids1 == states_by_id \cup {ac1[acs[k]].next_state : k \in 1..Len(acs)}
         IN IF AnyReward(rw)
            THEN IF add_success_action
                 THEN \* the walk raises TypeError at line 502
                      /\ acts' = SuccessActs(ac1, bs_beam, rw)
                      /\ states' = st1
                      /\ states_by_id' = ids1 \cup {SUCCESS_STATE}
                      /\ state_parent_edge' = DictSet(spe1, SuccessEdge(ac1, bs_beam, rw))
                      /\ solution' = SUCCESS_STATE
                      /\ bs_pc' = IF WalkRaises(state_parent_edge', solution')
                                  THEN "raised" ELSE "idle"
                      /\ UNCHANGED <<action_reward, replay_buffer_pos, replay_buffer_neg,
                                     bs_i, bs_beam>>
                 ELSE /\ acts' = ac1
                      /\ states' = st1
                      /\ states_by_id' = ids1
                      /\ state_parent_edge' = spe1
                      /\ solution' = SolutionOf(bs_beam, rw, solution)
                      /\ action_reward' = WalkRewards(spe1, solution', RewardUnit,
                                                      action_reward, reward_decay)
                      /\ replay_buffer_pos' =
                           Recorded(spe1, action_reward', replay_buffer_pos, TRUE)
                      /\ replay_buffer_neg' =
                           Recorded(spe1, action_reward', replay_buffer_neg, FALSE)
                      /\ bs_pc' = "idle"
                      /\ UNCHANGED <<bs_i, bs_beam>>
            ELSE IF NoActions(acs)
            THEN /\ acts' = ac1
                 /\ states' = st1
                 /\ states_by_id' = ids1
                 /\ state_parent_edge' = spe1
                 /\ IF RecordsExperience(solution, discard_unsolved_problems)
                    THEN /\ replay_buffer_pos' =
                              Recorded(spe1, action_reward, replay_buffer_pos, TRUE)
                         /\ replay_buffer_neg' =
                              Recorded(spe1, action_reward, replay_buffer_neg, FALSE)
                    ELSE UNCHANGED <<replay_buffer_pos, replay_buffer_neg>>
                 /\ bs_pc' = "idle"
                 /\ UNCHANGED <<solution, action_reward, bs_i, bs_beam>>
            ELSE \E qv \in [1..Len(acs) -> Scores("log")] :
                   LET ac2 == SetActionValues(ac1, acs, qv)
                       st2 == SetNextValues(st1, ac2, acs)
                       next_states == StableSortDesc(st2,
                                         [k \in 1..Len(acs) |-> ac2[acs[k]].next_state], <<>>)
                   IN /\ acts' = ac2
                      /\ states' = st2
                      /\ states_by_id' = ids1
                      /\ state_parent_edge' = spe1
                      /\ bs_beam' = NewBeam(next_states, agent_beam_size)
                      /\ bs_i' = bs_i + 1
                      /\ UNCHANGED <<solution, action_reward, replay_buffer_pos,
                                     replay_buffer_neg, bs_pc>>
    /\ UNCHANGED <<rvars, bconf, first_act, searches, qvars>>
    /\ UNCHANGED xvars

\* The loop of beam_search runs out: lines 532-539.
BSLoopEnd ==
    /\ bs_pc = "loop"
    /\ ~LoopRuns(bs_i, current_depth)
    /\ IF RecordsExperience(solution, discard_unsolved_problems)
       THEN /\ replay_buffer_pos' =
                 Recorded(state_parent_edge, action_reward, replay_buffer_pos, TRUE)
            /\ replay_buffer_neg' =
                 Recorded(state_parent_edge, action_reward, replay_buffer_neg, FALSE)
       ELSE UNCHANGED <<replay_buffer_pos, replay_buffer_neg>>
    /\ bs_pc' = "idle"
    /\ UNCHANGED <<heap, rvars, bconf, blocals, searches, qvars>>
    /\ UNCHANGED xvars

NextBS == BSInit \/ BSStart \/ BSRound \/ BSLoopEnd

SpecBS == InitBS /\ [][NextBS]_vars

(* ---------------- QLearning (agent.py 582-663) ---------------- *)
\* config.get('batch_size', 64)
DefaultBatchSize == 64

\* QReplayBufferTuple(a0, r, A1)
QReplayBufferTuple(a0, r, A1) == [a0 |-> a0, r |-> r, A1 |-> A1]

\* gradient_steps lines 648-653: the target of a tuple whose reward is not
\* positive needs self.q_function(t.A1).max(), which raises on an empty A1.
TargetRaises(t) == ~(t.r > 0) /\ t.A1 = <<>>

\* gradient_steps lines 636-642: batch = random.sample(examples, batch_size);
\* some sample holds a tuple whose target raises / some sample holds none.
CanRaise(buf, n) == Min2(n, Len(buf)) > 0 /\ \E k \in 1..Len(buf) : TargetRaises(buf[k])

CanPass(buf, n) ==
    Cardinality({k \in 1..Len(buf) : ~TargetRaises(buf[k])}) >= Min2(n, Len(buf))

\* The configuration of the agent, before __init__ runs.
QLearningConfig ==
    /\ ql_pc = "new"
    /\ ql_buffer_size \in 0..MaxBuf
    /\ ql_max_depth \in 1..MaxSteps
    /\ ql_batch_size \in {1, DefaultBatchSize}
    /\ replay_buffer = <<>>
    /\ ql_j = 0
    /\ ql_actions = <<>>
    /\ appended = <<>>

InitQL ==
    /\ states = <<State(<<"success">>, <<>>, RewardUnit, 0)>>
    /\ acts = <<>>
    /\ RolloutOff
    /\ BeamSearchOff
    /\ QLearningConfig
    /\ OthersOff

\* __init__ (lines 583-597): collections.deque(maxlen=self.replay_buffer_size).
QLInit ==
    /\ ql_pc = "new"
    /\ ql_pc' = "generate"
    /\ replay_buffer' = <<>>
    /\ UNCHANGED <<heap, rvars, bvars, ql_buffer_size, ql_max_depth, ql_batch_size, ql_j,
                   ql_actions, appended>>
    /\ UNCHANGED xvars

\* Lines 604-609: a new problem and the step call on it.
QLGenerate ==
    /\ ql_pc = "generate"
    /\ Len(states) < MaxObj
    /\ \E resp \in Responses(1, MaxObj - Len(states) - 1) :
         LET st0 == Append(states, NewProblem)
             state == <<Len(states) + 1>>
         IN /\ states' = StepStates("Environment", st0, acts, state, resp)
            /\ acts' = StepActs(st0, acts, state, resp)
            /\ ql_actions' = StepActionIds(acts, state, resp)
            /\ ql_pc' = IF Rewards(resp)[1] # 0 THEN "generate" ELSE "episode"
    /\ ql_j' = 0
    /\ UNCHANGED <<rvars, bvars, ql_buffer_size, ql_max_depth, ql_batch_size,
                   replay_buffer, appended>>
    /\ UNCHANGED xvars

\* Lines 611-626: one pass through the body of "for j in range(self.max_depth)".
QLTransition ==
    /\ ql_pc = "episode"
    /\ LoopRuns(ql_j, ql_max_depth)
    /\ ~NoActions(ql_actions)
    /\ \E a \in 1..Len(ql_actions) :
       \E resp \in Responses(1, MaxObj - Len(states)) :
         LET s_next == <<acts[ql_actions[a]].next_state>>
             next_actions == StepActionIds(acts, s_next, resp)
             t == QReplayBufferTuple(ql_actions[a], Rewards(resp)[1], next_actions)
         IN /\ states' = StepStates("Environment", states, acts, s_next, resp)
            /\ acts' = StepActs(states, acts, s_next, resp)
            /\ replay_buffer' = DequeAppend(replay_buffer, t, ql_buffer_size)
            /\ appended' = Append(appended, t)
            /\ \/ /\ CanPass(replay_buffer', ql_batch_size)
                  /\ ql_pc' = "episode"
                  /\ ql_j' = ql_j + 1
               \/ /\ CanRaise(replay_buffer', ql_batch_size)
                  /\ ql_pc' = "raised"
                  /\ ql_j' = ql_j
    /\ UNCHANGED <<rvars, bvars, ql_buffer_size, ql_max_depth, ql_batch_size, ql_actions>>
    /\ UNCHANGED xvars

\* The inner loop ends ("if not len(actions): break", or the range runs out)
\* and the outer loop goes on to the next problem.
QLEpisodeEnd ==
    /\ ql_pc = "episode"
    /\ (~LoopRuns(ql_j, ql_max_depth) \/ NoActions(ql_actions))
    /\ ql_pc' = "generate"
    /\ UNCHANGED <<heap, rvars, bvars, ql_buffer_size, ql_max_depth, ql_batch_size,
                   replay_buffer, ql_j, ql_actions, appended>>
    /\ UNCHANGED xvars

NextQL == QLInit \/ QLGenerate \/ QLTransition \/ QLEpisodeEnd

SpecQL == InitQL /\ [][NextQL]_vars

(* ------- EnvironmentWithEvaluationProxy and evaluate_agent (agent.py 195-299) ------- *)
\* A whole run keeps of a search what the proxy and the control flow read: the
\* number of states of each request, whether a reward was reported and how many
\* actions were offered.  The objects themselves are the subject of SpecBS and
\* SpecQL; the counters n_new_problems and cumulative_reward are reported and
\* never read, and are not kept.

\* __init__ (lines 200-216).  experiment_id is a parameter that __init__ does
\* not store: the attribute read at lines 267 and 282 exists only on an object
\* whose creator assigned it after construction.  n_evaluations is history:
\* the number of calls of evaluate begun.
Proxy(every, budget, output, id) ==
    [n_steps |-> 0, evaluate_every |-> every, max_steps |-> budget,
     output_path |-> output, n_checkpoints |-> 0, experiment_id |-> id,
     n_evaluations |-> 0]

\* config['output']: a path with or without a placeholder for the experiment.
OutputPaths == {"results", "results-{}"}

\* self.output_path.format(self.experiment_id)
Format(path) == IF path = "results-{}" THEN "results-run" ELSE path

\* A path that holds no readable results log.
NoFile == 0 - 1

\* evaluate (lines 245-284): the exception it ends with ("" when it returns)
\* and what it leaves in the object and on the disk.  The log is read from the
\* formatted path (lines 267-274, a failed read gives []) and written to the
\* path as configured (lines 276-279).
EvaluateOutcomes(px0, fs) ==
    LET px == [px0 EXCEPT !.n_evaluations = px0.n_evaluations + 1]
        read == Format(px.output_path)
        existing == IF fs[read] = NoFile THEN {0} ELSE {fs[read], 0}
        Out(e, p, f, io, env) ==
            [exc |-> e, proxy |-> p, files |-> f, io |-> io, env |-> env]
    IN  \* line 250: a call of the environment made by the evaluator fails
        {Out("ConnectionError", px, fs, FALSE, TRUE)}
        \cup
        (IF px.experiment_id = "unset"
         THEN \* line 267
              {Out("AttributeError", px, fs, FALSE, FALSE)}
         ELSE UNION {
                {\* line 278: open fails
                 Out("OSError", px, fs, TRUE, FALSE),
                 \* line 279: dump fails on the truncated file
                 Out("OSError", px, [fs EXCEPT ![px.output_path] = NoFile], TRUE, FALSE),
                 \* line 281: torch.save fails
                 Out("OSError", px, [fs EXCEPT ![px.output_path] = n + 1], TRUE, FALSE),
                 \* line 284
                 Out("", [px EXCEPT !.n_checkpoints = px.n_checkpoints + 1],
                     [fs EXCEPT ![px.output_path] = n + 1], FALSE, FALSE)}
                : n \in existing})

EvaluationDue_OnMultiple(before, n, every) == (before + n) % every = 0

\* Line 229: the request crosses a multiple of evaluate_every.
EvaluationDue(before, n, every) == (before % every) + n >= every

\* Line 232: if self.n_steps >= self.max_steps
BudgetEnded(px) == px.n_steps >= px.max_steps

\* step (lines 222-243) on a request of n states: how the call ends
\* ("returned", or the exception raised), and its effects.
ProxyStepOutcomes(px, fs, n) ==
    LET px1 == [px EXCEPT !.n_steps = px.n_steps + n]
        Res(r, e, env, fw) ==
            [result |-> r, proxy |-> e.proxy, files |-> e.files, io |-> e.io,
             env |-> env, forwarded |-> fw]
        evals == IF EvaluationDue(px.n_steps, n, px.evaluate_every)
                 THEN EvaluateOutcomes(px1, fs)
                 ELSE {[exc |-> "", proxy |-> px1, files |-> fs, io |-> FALSE,
                        env |-> FALSE]}
    IN UNION {IF e.exc # "" THEN {Res(e.exc, e, e.env, 0)}
              ELSE IF BudgetEnded(e.proxy) THEN {Res("EndOfLearning", e, FALSE, 0)}
              ELSE \* line 236: the request is forwarded; the call may fail
                   {Res("returned", e, FALSE, n), Res("ConnectionError", e, TRUE, n)}
              : e \in evals}

\* The effects of a call of proxy.step that ended as o.
ProxyAfter(o) ==
    /\ proxy' = o.proxy
    /\ files' = o.files
    /\ io_failed' = (io_failed \/ o.io)
    /\ env_failed' = (env_failed \/ o.env)
    /\ forwarded' = forwarded + o.forwarded
    /\ step_result' = o.result

\* An exception leaves learn_from_environment, which catches nothing, and
\* reaches the handlers of evaluate_agent (lines 291, 297).
Raise(e) ==
    /\ ea_pc' = IF e = "EndOfLearning" THEN "EndOfLearning" ELSE "Exception"
    /\ exc' = e

\* config['agent']['type']
BSID == "BeamSearchIterativeDeepening"

\* The configurations of a run (run_agent_experiment, lines 688-714).
RunConfig ==
    /\ agent \in {BSID, "QLearning"}
    /\ \E every \in 1..MaxEvery, budget \in 1..MaxBudget, output \in OutputPaths,
          id \in {"unset", "run"} :
         proxy = Proxy(every, budget, output, id)
    /\ files = [f \in OutputPaths \cup {Format(f) : f \in OutputPaths} |-> NoFile]
    /\ ea_pc = "evaluate_agent"
    /\ exc = ""
    /\ IF agent = BSID
       THEN /\ depths \in [initial_depth : 0..MaxRunDepth, max_depth : 0..MaxRunDepth,
                           depth_step : 0..MaxRunDepth, step_every : 1..MaxEvery]
            /\ agent_beam_size \in 1..MaxBeam
            /\ add_success_action \in BOOLEAN
            /\ replay_buffer_size = [kind |-> "list", n |-> 0]
            /\ ql_max_depth = 0
            /\ ql_buffer_size = 0
            /\ ql_batch_size = 1
       ELSE /\ depths = [initial_depth |-> 0, max_depth |-> 0, depth_step |-> 0,
                         step_every |-> 1]
            /\ agent_beam_size = 1
            /\ add_success_action = FALSE
            /\ replay_buffer_size = [kind |-> "int", n |-> 0]
            /\ ql_max_depth \in 1..MaxRunDepth
            /\ ql_buffer_size \in 0..MaxBuf
            /\ ql_batch_size \in {1, DefaultBatchSize}
    /\ lfe_i = 0
    /\ beam_len = 0
    /\ step_result = ""
    /\ forwarded = 0
    /\ learn_calls = 0
    /\ experience_calls = 0
    /\ final_evaluations = 0
    /\ io_failed = FALSE
    /\ env_failed = FALSE

InitRunBase ==
    /\ states = <<State(<<"success">>, <<>>, RewardUnit, 0)>>
    /\ acts = <<>>
    /\ RolloutOff
    /\ RunConfig
    /\ bs_pc = "off"
    /\ replay_buffer_pos = <<>>
    /\ replay_buffer_neg = <<>>
    /\ current_depth = 0
    /\ reward_decay = 2
    /\ discard_unsolved_problems = FALSE
    /\ bs_i = 0
    /\ bs_beam = <<>>
    /\ states_by_id = {}
    /\ state_parent_edge = <<>>
    /\ solution = 0
    /\ action_reward = <<>>
    /\ first_act = 0
    /\ searches = 0
    /\ ql_pc = "off"
    /\ replay_buffer = <<>>
    /\ ql_j = 0
    /\ ql_actions = <<>>
    /\ appended = <<>>

\* A whole run; gradient_steps of BeamSearchIterativeDeepening is taken to return.
InitRun == InitRunBase /\ LaterOff

\* What no action of a whole run changes.
RunFrameBase ==
    UNCHANGED <<heap, rvars, yvars, agent, depths, bs_pc, replay_buffer_size, agent_beam_size,
                reward_decay, discard_unsolved_problems, add_success_action, bs_beam,
                states_by_id, state_parent_edge, solution, action_reward, first_act,
                searches, replay_buffer_pos, replay_buffer_neg, ql_pc, ql_buffer_size,
                ql_max_depth, ql_batch_size, appended>>

RunFrame == RunFrameBase /\ UNCHANGED gvars

\* evaluate_agent line 287: the evaluation before any learning.
EAStart ==
    /\ ea_pc = "evaluate_agent"
    /\ \E e \in EvaluateOutcomes(proxy, files) :
         /\ proxy' = e.proxy
         /\ files' = e.files
         /\ io_failed' = (io_failed \/ e.io)
         /\ env_failed' = (env_failed \/ e.env)
         /\ exc' = e.exc
         /\ ea_pc' = IF e.exc = "" THEN "loop" ELSE "raised"
    /\ UNCHANGED <<current_depth, lfe_i, bs_i, beam_len, step_result, forwarded,
                   learn_calls, experience_calls, final_evaluations, replay_buffer,
                   ql_j, ql_actions>>
    /\ RunFrame

\* Lines 288-290: learn_from_environment is called; the agent's lines 441-443.
EALearn ==
    /\ ea_pc = "loop"
    /\ learn_calls' = learn_calls + 1
    /\ IF agent = BSID
       THEN current_depth' = depths.initial_depth
       ELSE current_depth' = current_depth
    /\ lfe_i' = 0
    /\ ea_pc' = "problem"
    /\ UNCHANGED <<proxy, files, exc, bs_i, beam_len, step_result, forwarded,
                   experience_calls, final_evaluations, io_failed, env_failed,
                   replay_buffer, ql_j, ql_actions>>
    /\ RunFrame

\* Lines 445-447 and 468-472: generate_new through the proxy (lines 218-220),
\* then the locals of beam_search.
RunBSProblem ==
    /\ ea_pc = "problem"
    /\ agent = BSID
    /\ \/ /\ Raise("ConnectionError")
          /\ env_failed' = TRUE
          /\ UNCHANGED <<bs_i, beam_len>>
       \/ /\ ea_pc' = "search"
          /\ bs_i' = 0
          /\ beam_len' = 1
          /\ UNCHANGED <<exc, env_failed>>
    /\ UNCHANGED <<proxy, files, current_depth, lfe_i, step_result, forwarded,
                   learn_calls, experience_calls, final_evaluations, io_failed,
                   replay_buffer, ql_j, ql_actions>>
    /\ RunFrame

\* One pass through the loop of beam_search (lines 474-530), the step being
\* made through the proxy.  A reported reward ends the search, with the
\* TypeError of line 502 when add_success_action is set; no action ends it;
\* otherwise the beam is the best beam_size of the states offered.
RunBSStep ==
    /\ ea_pc = "search"
    /\ LoopRuns(bs_i, current_depth)
    /\ \E o \in ProxyStepOutcomes(proxy, files, beam_len) :
         /\ ProxyAfter(o)
         /\ IF o.result # "returned"
            THEN /\ Raise(o.result)
                 /\ UNCHANGED <<bs_i, beam_len>>
            ELSE \E rewarded \in BOOLEAN, offered \in 0..(beam_len * Cardinality(Facts)) :
                   IF rewarded
                   THEN /\ IF add_success_action
                           THEN Raise("TypeError")
                           ELSE ea_pc' = "record" /\ exc' = exc
                        /\ UNCHANGED <<bs_i, beam_len>>
                   ELSE IF offered = 0
                   THEN /\ ea_pc' = "record"
                        /\ UNCHANGED <<exc, bs_i, beam_len>>
                   ELSE /\ ea_pc' = "search"
                        /\ bs_i' = bs_i + 1
                        /\ beam_len' = Min2(agent_beam_size, offered)
                        /\ exc' = exc
    /\ UNCHANGED <<current_depth, lfe_i, learn_calls, experience_calls,
                   final_evaluations, replay_buffer, ql_j, ql_actions>>
    /\ RunFrame

DepthAfter_Uncapped(k, depth, d) ==
    IF (k + 1) % d.step_every = 0 THEN depth + d.depth_step ELSE depth

\* Lines 458-459: the depth after problem k of this call (k counted from 0).
DepthAfter(k, depth, d) ==
    IF (k + 1) % d.step_every = 0 THEN Min2(d.max_depth, depth + d.depth_step) ELSE depth

\* The search returns (the loop ran out, or it broke: lines 532-539) and the
\* problem ends (lines 449-460).  i is read only in (i + 1) % step_every and
\* is kept modulo step_every.
ProblemEnd ==
    /\ \/ ea_pc = "record"
       \/ ea_pc = "search" /\ ~LoopRuns(bs_i, current_depth)
    /\ current_depth' = DepthAfter(lfe_i, current_depth, depths)
    /\ lfe_i' = (lfe_i + 1) % depths.step_every
    /\ ea_pc' = "problem"
    /\ UNCHANGED <<proxy, files, exc, bs_i, beam_len, step_result, forwarded,
                   learn_calls, experience_calls, final_evaluations, io_failed,
                   env_failed, replay_buffer, ql_j, ql_actions>>

RunBSProblemEnd == ProblemEnd /\ RunFrame

\* QLearning lines 604-609: a new problem and the step on it; an action is
\* written 0, the objects not being kept in a whole run.
RunQLProblem ==
    /\ ea_pc = "problem"
    /\ agent = "QLearning"
    /\ \/ /\ Raise("ConnectionError")
          /\ env_failed' = TRUE
          /\ UNCHANGED <<proxy, files, io_failed, forwarded, step_result, ql_j,
                         ql_actions>>
       \/ \E o \in ProxyStepOutcomes(proxy, files, 1) :
            /\ ProxyAfter(o)
            /\ IF o.result # "returned"
               THEN /\ Raise(o.result)
                    /\ UNCHANGED <<ql_j, ql_actions>>
               ELSE \E r \in BOOLEAN, offered \in {<<>>, <<0>>} :
                      /\ ea_pc' = IF r THEN "problem" ELSE "episode"
                      /\ ql_actions' = offered
                      /\ ql_j' = 0
                      /\ exc' = exc
    /\ UNCHANGED <<current_depth, lfe_i, bs_i, beam_len, learn_calls, experience_calls,
                   final_evaluations, replay_buffer>>
    /\ RunFrame

\* Lines 611-626: one pass through "for j in range(self.max_depth)".
RunQLStep ==
    /\ ea_pc = "episode"
    /\ LoopRuns(ql_j, ql_max_depth)
    /\ ~NoActions(ql_actions)
    /\ \E o \in ProxyStepOutcomes(proxy, files, 1) :
         /\ ProxyAfter(o)
         /\ IF o.result # "returned"
            THEN /\ Raise(o.result)
                 /\ UNCHANGED <<ql_j, replay_buffer>>
            ELSE \E r \in {0, 1}, next_actions \in {<<>>, <<0>>} :
                   /\ replay_buffer' = DequeAppend(replay_buffer,
                                                   QReplayBufferTuple(0, r, next_actions),
                                                   ql_buffer_size)
                   /\ \/ /\ CanPass(replay_buffer', ql_batch_size)
                         /\ ea_pc' = "episode"
                         /\ ql_j' = ql_j + 1
                         /\ exc' = exc
                      \/ /\ CanRaise(replay_buffer', ql_batch_size)
                         /\ Raise("RuntimeError")
                         /\ ql_j' = ql_j
    /\ UNCHANGED <<current_depth, lfe_i, bs_i, beam_len, learn_calls, experience_calls,
                   final_evaluations, ql_actions>>
    /\ RunFrame

\* The inner loop ends and the outer loop goes on to the next problem.
RunQLEpisodeEnd ==
    /\ ea_pc = "episode"
    /\ (~LoopRuns(ql_j, ql_max_depth) \/ NoActions(ql_actions))
    /\ ea_pc' = "problem"
    /\ UNCHANGED <<proxy, files, exc, current_depth, lfe_i, bs_i, beam_len, step_result,
                   forwarded, learn_calls, experience_calls, final_evaluations,
                   io_failed, env_failed, replay_buffer, ql_j, ql_actions>>
    /\ RunFrame

AfterFinalEvaluation_NoBreak(e) == IF e = "" THEN "loop" ELSE "raised"

\* Lines 295-296: the final evaluation returns and the loop is left by break;
\* an exception it raises inside the handler leaves evaluate_agent.
AfterFinalEvaluation(e) == IF e = "" THEN "returned" ELSE "raised"

\* Lines 291-296: the handler of EndOfLearning.
EndOfLearningHandler ==
    /\ ea_pc = "EndOfLearning"
    /\ experience_calls' = experience_calls + 1
    /\ final_evaluations' = final_evaluations + 1
    /\ \E e \in EvaluateOutcomes(proxy, files) :
         /\ proxy' = e.proxy
         /\ files' = e.files
         /\ io_failed' = (io_failed \/ e.io)
         /\ env_failed' = (env_failed \/ e.env)
         /\ exc' = e.exc
         /\ ea_pc' = AfterFinalEvaluation(e.exc)
    /\ UNCHANGED <<current_depth, lfe_i, bs_i, beam_len, step_result, forwarded,
                   learn_calls, replay_buffer, ql_j, ql_actions>>

EAEndOfLearning == EndOfLearningHandler /\ RunFrame

\* traceback.print_exc(limit=None, ...): a limit that is no number raises
\* TypeError when the traceback compares it with 0.
PrintExcRaises(limit) == limit # "None"

\* Lines 297-299: the handler of every other exception calls
\* traceback.print_exc(e), the exception being passed as the limit.
EAException ==
    /\ ea_pc = "Exception"
    /\ IF PrintExcRaises(exc)
       THEN ea_pc' = "raised" /\ exc' = "TypeError"
       ELSE ea_pc' = "loop" /\ exc' = ""
    /\ UNCHANGED <<proxy, files, current_depth, lfe_i, bs_i, beam_len, step_result,
                   forwarded, learn_calls, experience_calls, final_evaluations,
                   io_failed, env_failed, replay_buffer, ql_j, ql_actions>>
    /\ RunFrame

NextRun ==
    \/ EAStart \/ EALearn \/ RunBSProblem \/ RunBSStep \/ RunBSProblemEnd
    \/ RunQLProblem \/ RunQLStep \/ RunQLEpisodeEnd \/ EAEndOfLearning \/ EAException

SpecRun == InitRun /\ [][NextRun]_vars

\* The program is one sequential thread: it takes its next step whenever it
\* has one.
FairRun == SpecRun /\ WF_vars(NextRun)

(* ---------------- gradient_steps in a whole run (agent.py 440-465, 546-575) ---------------- *)
\* The buffer lengths are counted up to this number.
MaxExamples == 1

\* Lines 550-555: len(examples).
ExamplesLen(balance, n) ==
    IF balance THEN 2 * Min2(n.pos, n.neg) ELSE n.pos + n.neg

TakesSteps_Always(full, is_last_round, balance, n) == ExamplesLen(balance, n) > 0

\* gradient_steps (lines 546-575) reaches optimizer.step(): it returns at once
\* under full imitation learning unless this is the last round, and returns
\* when there is no example (batch_size and n_gradient_steps being positive).
TakesSteps(full, is_last_round, balance, n) ==
    /\ ~(full /\ ~is_last_round)
    /\ ExamplesLen(balance, n) > 0

\* learn_from_experience (lines 462-465).
ExperienceTakesSteps(full, balance, n) ==
    full /\ TakesSteps(full, TRUE, balance, n)

GradientConfig ==
    /\ full_imitation_learning \in BOOLEAN
    /\ balance_examples \in BOOLEAN
    /\ n_examples = [pos |-> 0, neg |-> 0]
    /\ updated = [environment |-> FALSE, experience |-> FALSE]

\* A whole run of BeamSearchIterativeDeepening, its gradient steps followed;
\* add_success_action has its default, the depth is stepped after every
\* problem and the results go to one path.
InitImitation ==
    /\ InitRunBase
    /\ agent = BSID
    /\ add_success_action = FALSE
    /\ depths.step_every = 1
    /\ proxy.output_path = "results"
    /\ RecoverOff
    /\ EvaluatorOff
    /\ GradientConfig
    /\ ProxyCallsOff

\* The problem ends: the edges the search recorded (lines 532-537) lengthen
\* the buffers, and lines 452-456 call gradient_steps when the condition on
\* optimize_on and optimize_every, which the model does not keep, holds.
ILProblemEnd ==
    /\ ProblemEnd
    /\ RunFrameBase
    /\ \E pos \in 0..1, neg \in 0..1, optimize \in BOOLEAN :
         LET n == [pos |-> Min2(MaxExamples, n_examples.pos + pos),
                   neg |-> Min2(MaxExamples, n_examples.neg + neg)]
         IN /\ n_examples' = n
            /\ updated' = [updated EXCEPT !.environment =
                             @ \/ (optimize /\ TakesSteps(full_imitation_learning, FALSE,
                                                          balance_examples, n))]
    /\ UNCHANGED <<full_imitation_learning, balance_examples>>

\* The handler of EndOfLearning, with the call of learn_from_experience (line 293).
ILEndOfLearning ==
    /\ EndOfLearningHandler
    /\ RunFrameBase
    /\ updated' = [updated EXCEPT !.experience =
                     @ \/ ExperienceTakesSteps(full_imitation_learning, balance_examples,
                                               n_examples)]
    /\ UNCHANGED <<full_imitation_learning, balance_examples, n_examples>>

NextImitation ==
    \/ EAStart \/ EALearn \/ RunBSProblem \/ RunBSStep \/ ILProblemEnd
    \/ ILEndOfLearning \/ EAException

SpecImitation == InitImitation /\ [][NextImitation]_vars

(* ---------------- the proxy, call by call (agent.py 198-299, 126-158) ---------------- *)
\* Bounds of this part: problems and episode length of the evaluator, and the
\* two counters of the proxy that nothing else bounds.
MaxEvalProblems == 2
MaxEvalSteps == 2
MaxNewProblems == 2
MaxReward == 1

EvaluatorEnvironment_Proxy == "proxy"

\* Line 248: SuccessRatePolicyEvaluator(self.environment, self.eval_config):
\* the evaluator is given the environment the proxy wraps, not the proxy.
EvaluatorEnvironment == "Environment"

\* The object counts the calls it receives: the proxy does (lines 218-243),
\* the Environment keeps no counter (lines 160-193).
Counting(env) == env = "proxy"

CountersNow == Counters(proxy.n_steps, n_new_problems, cumulative_reward)

\* By how much the counters b are greater than the counters a.
Grown(a, b) ==
    Counters(b.n_steps - a.n_steps, b.n_new_problems - a.n_new_problems,
             b.cumulative_reward - a.cumulative_reward)

\* The frame of a call of evaluate that begins, the counters being c.
Begin(caller, c) ==
    [caller |-> caller, i |-> 0, rolling |-> FALSE, t |-> 0, calls |-> 0, before |-> c]

\* config['eval_config'] (lines 129-133); beam_size at its default.
ProxyCallsConfig ==
    /\ n_new_problems = 0
    /\ cumulative_reward = 0
    /\ eval_config \in [n_problems : 1..MaxEvalProblems, max_steps : 0..MaxEvalSteps,
                        beam_size : {1}]
    /\ evaluation = NoEvaluation
    /\ pending = 0
    /\ last_evaluation = [caller |-> "none", stepped |-> FALSE, grown |-> Counters(0, 0, 0)]
    /\ nested = FALSE
    /\ eol_in_eval = FALSE

\* A whole run in which the agent is any caller of generate_new and step
\* with requests of up to beam_size states.
InitProxyCalls ==
    /\ InitRunBase
    /\ agent = BSID
    /\ depths = [initial_depth |-> 1, max_depth |-> 1, depth_step |-> 0, step_every |-> 1]
    /\ add_success_action = FALSE
    /\ proxy.output_path = "results"
    /\ RecoverOff
    /\ EvaluatorOff
    /\ GradientOff
    /\ ProxyCallsConfig

\* What the calls of the proxy leave alone.
ProxyCallsFrame ==
    UNCHANGED <<heap, rvars, bvars, qvars, cvars, pvars, gvars, agent, depths, lfe_i,
                beam_len, forwarded, learn_calls, eval_config>>

\* Line 287: evaluate_agent calls evaluate.
PCStart ==
    /\ ea_pc = "evaluate_agent"
    /\ evaluation.caller = "none"
    /\ evaluation' = Begin("evaluate_agent", CountersNow)
    /\ UNCHANGED <<proxy, files, ea_pc, exc, step_result, experience_calls,
                   final_evaluations, io_failed, env_failed, n_new_problems,
                   cumulative_reward, pending, last_evaluation, nested, eol_in_eval>>
    /\ ProxyCallsFrame

\* generate_new (lines 218-220), called by the agent.
PCGenerate ==
    /\ ea_pc = "problem"
    /\ evaluation.caller = "none"
    /\ n_new_problems < MaxNewProblems
    /\ n_new_problems' = n_new_problems + 1
    /\ UNCHANGED <<proxy, files, ea_pc, exc, step_result, experience_calls,
                   final_evaluations, io_failed, env_failed, cumulative_reward,
                   evaluation, pending, last_evaluation, nested, eol_in_eval>>
    /\ ProxyCallsFrame

\* step from line 232 on, for a request of n states: the budget test, then
\* the request is forwarded and the rewards are added up.
StepTail(px, n) ==
    IF BudgetEnded(px)
    THEN /\ Raise("EndOfLearning")
         /\ step_result' = "EndOfLearning"
         /\ UNCHANGED cumulative_reward
    ELSE /\ \E r \in 0..1 :
              /\ cumulative_reward + r <= MaxReward
              /\ cumulative_reward' = cumulative_reward + r
         /\ step_result' = "returned"
         /\ UNCHANGED <<ea_pc, exc>>

\* step (lines 222-243), called by the agent; when an evaluation is due the
\* call waits at line 230 for evaluate to return.
PCStep ==
    /\ ea_pc = "problem"
    /\ evaluation.caller = "none"
    /\ \E n \in 1..agent_beam_size :
         LET px == [proxy EXCEPT !.n_steps = proxy.n_steps + n]
         IN /\ proxy' = px
            /\ IF EvaluationDue(proxy.n_steps, n, proxy.evaluate_every)
               THEN /\ evaluation' = Begin("step", Counters(px.n_steps, n_new_problems,
                                                            cumulative_reward))
                    /\ pending' = n
                    /\ UNCHANGED <<ea_pc, exc, step_result, cumulative_reward>>
               ELSE /\ StepTail(px, n)
                    /\ UNCHANGED <<evaluation, pending>>
    /\ UNCHANGED <<files, experience_calls, final_evaluations, io_failed, env_failed,
                   n_new_problems, last_evaluation, nested, eol_in_eval>>
    /\ ProxyCallsFrame

\* Line 142: the evaluator generates its next problem and rollout begins.
PCEvalGenerate ==
    /\ evaluation.caller # "none"
    /\ ~evaluation.rolling
    /\ evaluation.i < eval_config.n_problems
    /\ evaluation' = [evaluation EXCEPT !.i = @ + 1, !.rolling = TRUE, !.t = 0]
    /\ n_new_problems' = IF Counting(EvaluatorEnvironment)
                         THEN n_new_problems + 1 ELSE n_new_problems
    /\ UNCHANGED <<proxy, files, ea_pc, exc, step_result, experience_calls,
                   final_evaluations, io_failed, env_failed, cumulative_reward,
                   pending, last_evaluation, nested, eol_in_eval>>
    /\ ProxyCallsFrame

\* Lines 77-90: environment.step(beam) in the rollout of the evaluator, on
\* the environment the evaluator was given; a reward or a beam without
\* actions ends the rollout.  Made to the proxy, the call would be counted,
\* could be due for an evaluation of its own and could end the budget.
PCEvalStep ==
    /\ evaluation.caller # "none"
    /\ evaluation.rolling
    /\ LoopRuns(evaluation.t, eval_config.max_steps)
    /\ \E n \in 1..eval_config.beam_size, r \in 0..1, ends \in BOOLEAN :
         IF Counting(EvaluatorEnvironment)
         THEN LET px == [proxy EXCEPT !.n_steps = proxy.n_steps + n]
              IN /\ proxy' = px
                 /\ nested' = (nested \/ EvaluationDue(proxy.n_steps, n,
                                                       proxy.evaluate_every))
                 /\ IF BudgetEnded(px)
                    THEN /\ eol_in_eval' = TRUE
                         /\ evaluation' = NoEvaluation
                         /\ pending' = 0
                         /\ exc' = "EndOfLearning"
                         /\ ea_pc' = IF evaluation.caller = "step"
                                     THEN "EndOfLearning" ELSE "raised"
                         /\ UNCHANGED cumulative_reward
                    ELSE /\ cumulative_reward' = cumulative_reward + r
                         /\ evaluation' = [evaluation EXCEPT !.t = @ + 1, !.calls = @ + 1,
                                                             !.rolling = ~ends]
                         /\ UNCHANGED <<eol_in_eval, pending, exc, ea_pc>>
         ELSE /\ evaluation' = [evaluation EXCEPT !.t = @ + 1, !.calls = @ + 1,
                                                  !.rolling = ~ends]
              /\ UNCHANGED <<proxy, nested, eol_in_eval, pending, exc, ea_pc,
                             cumulative_reward>>
    /\ UNCHANGED <<files, step_result, experience_calls, final_evaluations, io_failed,
                   env_failed, n_new_problems, last_evaluation>>
    /\ ProxyCallsFrame

\* for i in range(max_steps) runs out: the rollout returns without success.
PCEvalRolloutEnd ==
    /\ evaluation.caller # "none"
    /\ evaluation.rolling
    /\ ~LoopRuns(evaluation.t, eval_config.max_steps)
    /\ evaluation' = [evaluation EXCEPT !.rolling = FALSE]
    /\ UNCHANGED <<proxy, files, ea_pc, exc, step_result, experience_calls,
                   final_evaluations, io_failed, env_failed, n_new_problems,
                   cumulative_reward, pending, last_evaluation, nested, eol_in_eval>>
    /\ ProxyCallsFrame

\* Lines 251-284: the evaluator returned; the results are logged and evaluate
\* returns to its caller or raises.  The caller at line 230 goes on with the
\* budget test.
PCEvalEnd ==
    /\ evaluation.caller # "none"
    /\ ~evaluation.rolling
    /\ evaluation.i = eval_config.n_problems
    /\ \E e \in EvaluateOutcomes(proxy, files) :
         /\ proxy' = e.proxy
         /\ files' = e.files
         /\ io_failed' = (io_failed \/ e.io)
         /\ env_failed' = (env_failed \/ e.env)
         /\ IF e.exc = ""
            THEN /\ last_evaluation' =
                      [caller |-> evaluation.caller, stepped |-> evaluation.calls > 0,
                       grown |-> Grown(evaluation.before,
                                       Counters(e.proxy.n_steps, n_new_problems,
                                                cumulative_reward))]
                 /\ IF evaluation.caller = "step"
                    THEN StepTail(e.proxy, pending)
                    ELSE /\ ea_pc' = IF evaluation.caller = "final"
                                     THEN AfterFinalEvaluation(e.exc) ELSE "loop"
                         /\ UNCHANGED <<exc, step_result, cumulative_reward>>
            ELSE /\ IF evaluation.caller = "step"
                    THEN Raise(e.exc)
                    ELSE ea_pc' = "raised" /\ exc' = e.exc
                 /\ UNCHANGED <<last_evaluation, step_result, cumulative_reward>>
    /\ evaluation' = NoEvaluation
    /\ pending' = 0
    /\ UNCHANGED <<experience_calls, final_evaluations, n_new_problems, nested,
                   eol_in_eval>>
    /\ ProxyCallsFrame

\* Lines 291-295: the handler of EndOfLearning calls learn_from_experience
\* and then evaluate.
PCEndOfLearning ==
    /\ ea_pc = "EndOfLearning"
    /\ evaluation.caller = "none"
    /\ experience_calls' = experience_calls + 1
    /\ final_evaluations' = final_evaluations + 1
    /\ evaluation' = Begin("final", CountersNow)
    /\ UNCHANGED <<proxy, files, ea_pc, exc, step_result, io_failed, env_failed,
                   n_new_problems, cumulative_reward, pending, last_evaluation, nested,
                   eol_in_eval>>
    /\ ProxyCallsFrame

NextProxyCalls ==
    \/ PCStart \/ EALearn \/ PCGenerate \/ PCStep \/ PCEvalGenerate \/ PCEvalStep
    \/ PCEvalRolloutEnd \/ PCEvalEnd \/ PCEndOfLearning \/ EAException

SpecProxyCalls == InitProxyCalls /\ [][NextProxyCalls]_vars

(* ---------------- QFunction.rollout (agent.py 70-108) ---------------- *)
\* State after lines 73-75: history starts empty, and there is no seen set.
AgentRolloutInit ==
    /\ states = <<State(<<"a">>, <<"g">>, 0, 0)>>
    /\ acts = <<>>
    /\ environment = "Environment"
    /\ transform = "log"
    /\ max_steps \in 0..MaxSteps
    /\ beam_size \in 1..MaxBeam
    /\ pc = "loop"
    /\ i = 0
    /\ beam = <<1>>
    /\ history = <<>>
    /\ seen = {}
    /\ success = FALSE
    /\ rewards = <<>>
    /\ actions = <<>>
    /\ step_calls = 0
    /\ q_calls = 0
    /\ open_env = TRUE
    /\ q_values = <<>>

\* One pass through the body of the loop (lines 81-106): the beam is appended
\* to history before the step, the next states are not filtered, and the new
\* beam is appended after the sort.
AgentRolloutRound ==
    /\ pc = "loop"
    /\ LoopRuns(i, max_steps)
    /\ \E resp \in Responses(Len(beam), MaxObj - Len(states)) :
         LET st1 == StepStates(environment, states, acts, beam, resp)
             ac1 == StepActs(states, acts, beam, resp)
             acs == StepActionIds(acts, beam, resp)
             rw == Rewards(resp)
         IN /\ rewards' = rw
            /\ actions' = acs
            /\ acts' = ac1
            /\ step_calls' = step_calls + 1
            /\ IF AnyReward(rw) \/ NoActions(acs)
               THEN /\ success' = AnyReward(rw)
                    /\ pc' = "done"
                    /\ states' = st1
                    /\ history' = Append(history, beam)
                    /\ UNCHANGED <<i, beam, q_calls, q_values>>
               ELSE \E qv \in [1..Len(acs) -> Scores(transform)] :
                      LET st2 == AssignValues(st1, ac1, acs, qv, transform)
                          ns == StableSortDesc(st2,
                                   [k \in 1..Len(acs) |-> ac1[acs[k]].next_state], <<>>)
                      IN /\ states' = st2
                         /\ q_calls' = q_calls + 1
                         /\ q_values' = qv
                         /\ beam' = NewBeam(ns, beam_size)
                         /\ history' = Append(Append(history, beam), beam')
                         /\ i' = i + 1
                         /\ UNCHANGED <<success, pc>>
    /\ UNCHANGED <<environment, transform, max_steps, beam_size, seen, open_env>>
    /\ UNCHANGED <<bvars, qvars>>
    /\ UNCHANGED xvars

\* The range is exhausted and rollout returns (line 108).
AgentRolloutReturn ==
    /\ pc = "loop"
    /\ ~LoopRuns(i, max_steps)
    /\ pc' = "done"
    /\ UNCHANGED <<heap, environment, transform, max_steps, beam_size, i, beam, history,
                   seen, success, rewards, actions, step_calls, q_calls, open_env,
                   q_values>>
    /\ UNCHANGED <<bvars, qvars>>
    /\ UNCHANGED xvars

InitAgentRollout == AgentRolloutInit /\ BeamSearchOff /\ QLearningOff /\ OthersOff

NextAgentRollout == AgentRolloutRound \/ AgentRolloutReturn

SpecAgentRollout == InitAgentRollout /\ [][NextAgentRollout]_vars

(* ---------------- SuccessRatePolicyEvaluator (agent.py 126-158) ---------------- *)
MaxProblems == 2

MaxSeed == 1

Max2(a, b) == IF a > b THEN a ELSE b

SeedOf_Base(base, k) == base

\* seed=(self.seed + i)
SeedOf(base, k) == base + k

\* len(successes) / self.n_problems, a quotient of two integers.
Ratio(num, den) == [num |-> num, den |-> den]

\* __init__ (lines 129-135) and lines 138-139 of evaluate.
EvaluatorInit ==
    /\ ev_pc = "for"
    /\ seed \in 0..MaxSeed
    /\ n_problems \in 0..MaxProblems
    /\ ev_i = 0
    /\ problem = 0
    /\ successes = <<>>
    /\ failures = <<>>
    /\ max_solution_length = 0
    /\ success_rate = [num |-> 0, den |-> 1]
    /\ seeds = <<>>
    /\ rollouts = 0
    /\ flags = <<>>

InitEvaluator ==
    /\ states = <<>>
    /\ acts = <<>>
    /\ environment = "Environment"
    /\ transform = "log"
    /\ max_steps \in 0..MaxSteps
    /\ beam_size = 1    \* config.get('beam_size', 1)
    /\ pc = "off"
    /\ i = 0
    /\ beam = <<>>
    /\ history = <<>>
    /\ seen = {}
    /\ success = FALSE
    /\ rewards = <<>>
    /\ actions = <<>>
    /\ step_calls = 0
    /\ q_calls = 0
    /\ open_env = TRUE
    /\ q_values = <<>>
    /\ BeamSearchOff
    /\ QLearningOff
    /\ RunOff
    /\ RecoverOff
    /\ GradientOff
    /\ ProxyCallsOff
    /\ EvaluatorInit

\* Lines 141-144: generate_new with the next seed, and the call of rollout
\* (its lines 73-75).  The objects of the rollout before are garbage by now,
\* the problems apart, which the model keeps by number.
EvGenerate ==
    /\ ev_pc = "for"
    /\ LoopRuns(ev_i, n_problems)
    /\ seeds' = Append(seeds, SeedOf(seed, ev_i))
    /\ problem' = Len(seeds) + 1
    /\ rollouts' = rollouts + 1
    /\ ev_pc' = "rollout"
    /\ states' = <<State(<<"a">>, <<"g">>, 0, 0)>>
    /\ acts' = <<>>
    /\ pc' = "loop"
    /\ i' = 0
    /\ beam' = <<1>>
    /\ history' = <<>>
    /\ success' = FALSE
    /\ rewards' = <<>>
    /\ actions' = <<>>
    /\ step_calls' = 0
    /\ q_calls' = 0
    /\ q_values' = <<>>
    /\ UNCHANGED <<environment, transform, max_steps, beam_size, seen, open_env>>
    /\ UNCHANGED <<seed, n_problems, ev_i, successes, failures, max_solution_length,
                   success_rate, flags>>
    /\ UNCHANGED <<bvars, qvars, evars, cvars, gvars, tvars>>

\* Lines 145-149: the problem goes to successes or to failures.
EvClassify ==
    /\ ev_pc = "rollout"
    /\ pc = "done"
    /\ IF success
       THEN /\ successes' = Append(successes, problem)
            /\ max_solution_length' = Max2(max_solution_length, Len(history) - 1)
            /\ UNCHANGED failures
       ELSE /\ failures' = Append(failures, problem)
            /\ UNCHANGED <<successes, max_solution_length>>
    /\ flags' = Append(flags, success)
    /\ ev_i' = ev_i + 1
    /\ ev_pc' = "for"
    /\ UNCHANGED <<seed, n_problems, problem, success_rate, seeds, rollouts>>
    /\ UNCHANGED <<heap, rvars, bvars, qvars, evars, cvars, gvars, tvars>>

\* Lines 153-158; the division raises ZeroDivisionError when n_problems is 0.
EvReturn ==
    /\ ev_pc = "for"
    /\ ~LoopRuns(ev_i, n_problems)
    /\ IF n_problems = 0
       THEN /\ ev_pc' = "ZeroDivisionError"
            /\ UNCHANGED success_rate
       ELSE /\ ev_pc' = "returned"
            /\ success_rate' = Ratio(Len(successes), n_problems)
    /\ UNCHANGED <<seed, n_problems, ev_i, problem, successes, failures,
                   max_solution_length, seeds, rollouts, flags>>
    /\ UNCHANGED <<heap, rvars, bvars, qvars, evars, cvars, gvars, tvars>>

NextEvaluator ==
    EvGenerate \/ AgentRolloutRound \/ AgentRolloutReturn \/ EvClassify \/ EvReturn

SpecEvaluator == InitEvaluator /\ [][NextEvaluator]_vars

(* ---------------- QFunction.recover_solutions (q_function.py 77-91) ---------------- *)
\* The longest chain the model follows.
MaxWalk == 6

\* [s for s in rollout_history[-1] if s.value > 0]
SolutionStates(st, layer) ==
    LET Positive(s) == st[s].value > 0
    IN SelectSeq(layer, Positive)

WalkContinues_Never(st, s) == FALSE

\* while s.parent_action is not None
WalkContinues(st, s) == st[s].parent_action # 0

\* s.parent_action.state
ParentState(st, ac, s) == ac[st[s].parent_action].state

\* list(reversed(solution))
Reversed(sq) == [k \in 1..Len(sq) |-> sq[Len(sq) + 1 - k]]

RecoverFrame == UNCHANGED <<heap, rvars, bvars, qvars, evars, pvars, gvars, tvars>>

\* Lines 80-81; rollout_history[-1] of an empty history raises IndexError.
RecoverStart ==
    /\ pc = "done"
    /\ rec_pc = "off"
    /\ IF history = <<>>
       THEN /\ rec_pc' = "IndexError"
            /\ UNCHANGED solution_states
       ELSE /\ rec_pc' = "for"
            /\ solution_states' = SolutionStates(states, history[Len(history)])
    /\ solutions' = <<>>
    /\ UNCHANGED <<rec_k, rec_s, rec_solution>>
    /\ RecoverFrame

\* Lines 83-85: the next final_state.
RecoverFinalState ==
    /\ rec_pc = "for"
    /\ rec_k < Len(solution_states)
    /\ rec_k' = rec_k + 1
    /\ rec_s' = solution_states[rec_k + 1]
    /\ rec_solution' = <<solution_states[rec_k + 1]>>
    /\ rec_pc' = "while"
    /\ UNCHANGED <<solution_states, solutions>>
    /\ RecoverFrame

\* Lines 86-88: one step up the chain of parent actions.
RecoverWalk ==
    /\ rec_pc = "while"
    /\ WalkContinues(states, rec_s)
    /\ Len(rec_solution) < MaxWalk
    /\ rec_s' = ParentState(states, acts, rec_s)
    /\ rec_solution' = Append(rec_solution, ParentState(states, acts, rec_s))
    /\ UNCHANGED <<rec_pc, solution_states, rec_k, solutions>>
    /\ RecoverFrame

\* Line 89: the chain ended at a state with no parent.
RecoverAppend ==
    /\ rec_pc = "while"
    /\ ~WalkContinues(states, rec_s)
    /\ solutions' = Append(solutions, Reversed(rec_solution))
    /\ rec_pc' = "for"
    /\ UNCHANGED <<solution_states, rec_k, rec_s, rec_solution>>
    /\ RecoverFrame

\* Line 91.
RecoverReturn ==
    /\ rec_pc = "for"
    /\ rec_k = Len(solution_states)
    /\ rec_pc' = "returned"
    /\ UNCHANGED <<solution_states, rec_k, rec_s, rec_solution, solutions>>
    /\ RecoverFrame

RecoverSolutions ==
    RecoverStart \/ RecoverFinalState \/ RecoverWalk \/ RecoverAppend \/ RecoverReturn

\* A rollout of q_function.py in the Environment of agent.py, then
\* recover_solutions on its history.
InitRecover == Init /\ environment = "Environment"

NextRecover == Next \/ RecoverSolutions

SpecRecover == InitRecover /\ [][NextRecover]_vars

\* The number of State objects of a history handed to recover_solutions directly.
MaxChain == 3

\* recover_solutions takes any list of lists of State.  A history whose last
\* layer holds n states, every state either without a parent action or with one
\* whose source is any of the n states: the chains of a rollout, and chains
\* that a caller corrupted, cycles among them.
InitCorrupted ==
    /\ \E n \in 1..MaxChain : \E src \in [1..n -> 1..n] :
       \E par \in [1..n -> BOOLEAN] : \E val \in [1..n -> {0, 1}] :
         /\ states = [k \in 1..n |->
                        State(<<"a">>, <<"g">>, val[k], IF par[k] THEN k ELSE 0)]
         /\ acts = [k \in 1..n |-> Action(src[k], "a", k, 0, 0)]
         /\ history = <<[k \in 1..n |-> k]>>
    /\ environment = "Environment"
    /\ transform = "log"
    /\ max_steps \in 0..MaxSteps
    /\ beam_size = 1
    /\ pc = "done"
    /\ i = 0
    /\ beam = <<>>
    /\ seen = {}
    /\ success = TRUE
    /\ rewards = <<>>
    /\ actions = <<>>
    /\ step_calls = 0
    /\ q_calls = 0
    /\ open_env = FALSE
    /\ q_values = <<>>
    /\ BeamSearchOff
    /\ QLearningOff
    /\ OthersOff

NextCorrupted == RecoverSolutions

SpecCorrupted == InitCorrupted /\ [][NextCorrupted]_vars

(* ======================= properties of QFunction.rollout ======================= *)
Last(sq) == sq[Len(sq)]

\* The states of the layers before layer l: all of them were added to seen.
EarlierStates(l) == UNION {Range(history[k]) : k \in 1..(l - 1)}

ScoringRound == q_calls' = q_calls + 1

\* C2: the value given to the resulting state of every scored action is the
\* value its parent had when it was placed in the beam (the cumulative score
\* of the parent's path) plus the transformed score of the edge: a parent's
\* value is not changed between the round that computed it and the round
\* that scores its children.
C2_BeamValueIsPathScore ==
    [][(environment = "Environment" /\ ScoringRound) =>
          \A k \in 1..Len(actions') :
              states'[acts'[actions'[k]].next_state].value =
                  states[acts'[actions'[k]].state].value
                  + AggregationTransform(transform, q_values'[k])]_vars

\* C3: the layer appended by an expansion round is exactly the new beam, so
\* every layer after the first has at most beam_size states, and seen grows
\* by exactly the states of the new beam.
C3_LayerIsNewBeam ==
    /\ \A l \in 2..Len(history) : Len(history[l]) <= beam_size
    /\ (pc = "loop" /\ i > 0) => Last(history) = beam
    /\ seen = UNION {Range(history[l]) : l \in 1..Len(history)}
    /\ (pc = "loop" /\ i > 0) => Range(beam) \cap EarlierStates(Len(history)) = {}

\* C4: when the last step call reported a reward for any beam state, rollout
\* has returned success=True at once: the value function was not called in
\* that round and no layer was appended (one layer per scoring round only);
\* on the first step call history has length 1.
C4_RewardStopsAtOnce ==
    /\ Len(history) = q_calls + 1
    /\ (\E k \in 1..Len(rewards) : rewards[k] = 1) =>
          (pc = "done" /\ success /\ q_calls = step_calls - 1
           /\ Len(history) = step_calls)

C4_Witness ==
    /\ pc = "done" /\ success /\ step_calls = 2 /\ q_calls = 1
    /\ rewards = <<0, 1>> /\ Len(history) = 2

\* C5: when the last step call reported no reward and no action for any beam
\* state, rollout has returned success=False normally and appended nothing;
\* on the first step call history has length 1.
C5_DeadEndFails ==
    (step_calls > 0 /\ actions = <<>> /\ \A k \in 1..Len(rewards) : rewards[k] = 0) =>
        (pc = "done" /\ ~success /\ q_calls = step_calls - 1
         /\ Len(history) = step_calls)

C5_Witness ==
    /\ pc = "done" /\ ~success /\ step_calls = 2 /\ actions = <<>>
    /\ rewards = <<0, 0>> /\ Len(history) = 2

\* C6: against an environment that never reports a reward and always offers an
\* unseen successor, rollout returns success=False after exactly max_steps
\* step calls with max_steps+1 layers; history never exceeds max_steps+1 layers.
C6_DepthLimit ==
    /\ Len(history) <= max_steps + 1
    /\ step_calls <= max_steps
    /\ (pc = "done" /\ open_env) =>
          (~success /\ step_calls = max_steps /\ Len(history) = max_steps + 1)

C6_Witness ==
    /\ pc = "done" /\ open_env /\ max_steps = 3 /\ beam_size = 2
    /\ step_calls = 3 /\ Len(history) = 4 /\ ~success

(* ============== properties of BeamSearchIterativeDeepening ============== *)
\* A beam_search call has ended, by a return or by an exception.
SearchEnded == searches > 0 /\ bs_pc \in {"idle", "raised"}

\* The actions from a state back to the root of its search, nearest first.
RECURSIVE ChainFrom(_)
ChainFrom(s) ==
    IF states[s].parent_action = 0 THEN <<>>
    ELSE <<states[s].parent_action>> \o ChainFrom(acts[states[s].parent_action].state)

\* The edges of the solution path, from the edge entering the solution state.
SolutionPath ==
    IF solution = 0 THEN <<>>
    ELSE IF solution = SUCCESS_STATE
    THEN <<Lookup(state_parent_edge, SUCCESS_STATE).a>>
         \o ChainFrom(acts[Lookup(state_parent_edge, SUCCESS_STATE).a].state)
    ELSE ChainFrom(solution)

\* reward_decay^k, in reward units.
DecayPow(k) == (RewardUnit * Pow(reward_decay, k)) \div Pow(2, k)

\* C7: when beam_search found a solution, the edge of the solution path at
\* distance k from the solution state is assigned reward reward_decay^k.
C7_DecayedCredit ==
    (SearchEnded /\ solution # 0) =>
        \A k \in 1..Len(SolutionPath) :
            /\ SolutionPath[k] \in DOMAIN action_reward
            /\ action_reward[SolutionPath[k]] = DecayPow(k - 1)

\* The actions environment.step returned during the last search.
SearchActions == {a \in (first_act + 1)..Len(acts) : acts[a].action # "success"}

Examples(buf, a) == {k \in 1..Len(buf) : buf[k][2] = a}

\* C8: after a beam_search call that records experience, every action step
\* returned during the search is in the buffers exactly once: in the positive
\* one with its decayed reward if on the solution path, in the negative one
\* with reward 0 otherwise.
C8_EveryEdgeRecordedOnce ==
    (SearchEnded /\ RecordsExperience(solution, discard_unsolved_problems)) =>
        \A a \in SearchActions :
            IF \E k \in 1..Len(SolutionPath) : SolutionPath[k] = a
            THEN /\ Cardinality(Examples(replay_buffer_pos, a)) = 1
                 /\ Examples(replay_buffer_neg, a) = {}
                 /\ \A e \in Examples(replay_buffer_pos, a) : \A k \in 1..Len(SolutionPath) :
                        SolutionPath[k] = a => replay_buffer_pos[e][3] = DecayPow(k - 1)
            ELSE /\ Cardinality(Examples(replay_buffer_neg, a)) = 1
                 /\ Examples(replay_buffer_pos, a) = {}
                 /\ \A e \in Examples(replay_buffer_neg, a) : replay_buffer_neg[e][3] = 0

\* C9: an agent built with replay_buffer_size = N has two buffers, empty at
\* first and never holding more than N examples.
C9_BoundedBuffers ==
    (replay_buffer_size.kind = "int" /\ bs_pc # "new") =>
        /\ bs_pc # "TypeError"
        /\ Len(replay_buffer_pos) <= replay_buffer_size.n
        /\ Len(replay_buffer_neg) <= replay_buffer_size.n

(* ======================= properties of QLearning ======================= *)
\* The last n elements of a sequence (all of it when shorter).
LastN(sq, n) == SubSeq(sq, Len(sq) - Min2(n, Len(sq)) + 1, Len(sq))

\* C10: replay_buffer never holds more than replay_buffer_size tuples, and it
\* holds exactly the most recently appended ones, in insertion order.
C10_BufferIsMostRecent ==
    (ql_pc \notin {"off", "new"}) =>
        /\ Len(replay_buffer) <= ql_buffer_size
        /\ replay_buffer = LastN(appended, ql_buffer_size)

C10_Witness ==
    /\ ql_buffer_size = 2
    /\ Len(appended) = 4
    /\ Len(replay_buffer) = 2
    /\ appended[1] # appended[3]
    /\ replay_buffer = <<appended[3], appended[4]>>

(* ======================= properties of a whole run ======================= *)
\* C11: a call of proxy.step ends with EndOfLearning exactly when n_steps,
\* the states of the request added, has reached max_steps; a call that raises
\* forwards nothing, so fewer than max_steps states are ever forwarded to the
\* underlying environment.
C11_EndOfLearningExactlyAtBudget ==
    /\ step_result # "" =>
          ((step_result = "EndOfLearning") <=> (proxy.n_steps >= proxy.max_steps))
    /\ forwarded < proxy.max_steps

\* EndOfLearning has been raised.
BudgetSignalled == step_result = "EndOfLearning"

\* C12: once EndOfLearning is raised, learn_from_experience is called exactly
\* once, then one final evaluation is run, then the loop stops:
\* learn_from_environment is not called again and no further proxy step is made.
C12_FinalPassThenStop ==
    /\ [](BudgetSignalled =>
            /\ ea_pc \in {"EndOfLearning", "returned", "raised"}
            /\ (ea_pc = "EndOfLearning" => experience_calls = 0 /\ final_evaluations = 0)
            /\ (ea_pc # "EndOfLearning" => experience_calls = 1 /\ final_evaluations = 1))
    /\ [][BudgetSignalled =>
            /\ learn_calls' = learn_calls
            /\ proxy'.n_steps = proxy.n_steps
            /\ forwarded' = forwarded
            /\ step_result' = step_result]_vars

C12_Witness ==
    /\ ea_pc = "returned" /\ BudgetSignalled /\ forwarded = 2 /\ learn_calls = 1
    /\ experience_calls = 1 /\ final_evaluations = 1 /\ proxy.n_checkpoints = 3

\* C13: an exception other than EndOfLearning raised while
\* learn_from_environment runs does not terminate evaluate_agent: evaluate_agent
\* is never left by an exception while the budget has not been signalled.
C13_ExceptionsAreSurvived ==
    ~(ea_pc = "raised" /\ learn_calls > 0 /\ ~BudgetSignalled)

\* C14: a failure to write the results log or to save a checkpoint inside
\* evaluate never terminates the run, whichever evaluation it occurs in.
C14_IOFailuresAreSurvived == io_failed => ea_pc # "raised"

\* C15: evaluate_agent eventually terminates, for every configuration: the
\* loop cannot process problems forever without the budget being reached.
C15_RunTerminates == <>(ea_pc \in {"returned", "raised"})

\* A problem of learn_from_environment ends in this step.
ProblemEnds == ea_pc \in {"search", "record"} /\ ea_pc' = "problem"

\* current_depth is within its limits.
DepthWithinLimits ==
    depths.initial_depth <= current_depth /\ current_depth <= depths.max_depth

\* current_depth starts at initial_depth, never decreases, and moves only
\* after every step_every-th problem, by depth_step up to max_depth.
DepthMoves ==
    /\ learn_calls' = learn_calls + 1 => current_depth' = depths.initial_depth
    /\ (learn_calls > 0 /\ learn_calls' = learn_calls) =>
          /\ current_depth' >= current_depth
          /\ current_depth' =
                IF ProblemEnds /\ (lfe_i + 1) % depths.step_every = 0
                THEN (IF current_depth + depths.depth_step < depths.max_depth
                      THEN current_depth + depths.depth_step ELSE depths.max_depth)
                ELSE current_depth

\* C16 as stated: over a whole training run current_depth starts at
\* initial_depth, never decreases, increases by depth_step after every
\* step_every-th problem, and never exceeds max_depth.
C16_DepthSchedule_AsStated ==
    /\ [](agent = BSID /\ learn_calls > 0 => DepthWithinLimits)
    /\ [][agent = BSID => DepthMoves]_vars

\* C16, amended: the same, for a configuration with initial_depth <= max_depth
\* (and depth_step >= 0).
C16_DepthSchedule ==
    /\ [](agent = BSID /\ depths.initial_depth <= depths.max_depth /\ learn_calls > 0
            => DepthWithinLimits)
    /\ [][agent = BSID /\ depths.initial_depth <= depths.max_depth => DepthMoves]_vars

C16_Witness ==
    /\ agent = BSID /\ learn_calls = 1 /\ ea_pc = "problem"
    /\ depths = [initial_depth |-> 0, max_depth |-> 2, depth_step |-> 1, step_every |-> 2]
    /\ current_depth = 2 /\ proxy.n_steps = 2

(* ======================= properties of recover_solutions ======================= *)
\* The path starts at the root of the rollout, which has no parent action, every
\* later state is the next_state of an action leaving the state before it, and
\* the path has at most max_steps + 1 states.
ValidPath(p) ==
    /\ p[1] = 1
    /\ states[p[1]].parent_action = 0
    /\ \A k \in 2..Len(p) :
         LET a == states[p[k]].parent_action
         IN a # 0 /\ acts[a].next_state = p[k] /\ acts[a].state = p[k - 1]
    /\ Len(p) <= max_steps + 1

\* C17: every path recover_solutions returns on the history of a rollout with
\* max_steps = n starts at the rollout's root (parent_action = None), each later
\* state is the next_state of an action whose source state is the preceding
\* element, and the path has at most n+1 states; one path is returned for
\* every state of positive value in the last layer and it ends in that state.
C17_RecoveredPathsAreValid ==
    /\ \A j \in 1..Len(solutions) :
         ValidPath(solutions[j]) /\ Last(solutions[j]) = solution_states[j]
    /\ rec_pc = "returned" => Len(solutions) = Len(solution_states)

\* A path of max_steps + 1 = 3 states was returned.
C17_Witness ==
    /\ rec_pc = "returned"
    /\ max_steps = 2
    /\ \E j \in 1..Len(solutions) : Len(solutions[j]) = 3
\* C18: recover_solutions stops walking a chain of parent actions after
\* max_steps + 1 states (and fails with an error), whatever the chain, a chain
\* corrupted into a cycle included.
C18_WalkIsCapped == rec_pc = "while" => Len(rec_solution) <= max_steps + 1
(* ======================= properties of rollout in agent.py ======================= *)
\* C19: rollout called with max_steps = 0 makes no environment or
\* value-function call and returns success = False with history = [[root]]
\* (stated here of the definition in agent.py).
C19_ZeroStepsReturnsRoot ==
    (pc = "done" /\ max_steps = 0) =>
        /\ history = <<<<1>>>>
        /\ ~success
        /\ step_calls = 0
        /\ q_calls = 0
(* ======================= properties of SuccessRatePolicyEvaluator ======================= *)
\* The problems of a list, as a set.
Problems(sq) == {sq[k] : k \in 1..Len(sq)}

\* C20: evaluate calls generate_new exactly n_problems times, with the seeds
\* seed, seed+1, ..., seed+n_problems-1 in that order, runs exactly one rollout
\* per generated problem, puts each problem in exactly one of successes and
\* failures according to the success flag of its rollout, and reports
\* success_rate = len(successes) / n_problems (the division raises
\* ZeroDivisionError when n_problems is 0, no problem having been generated).
C20_EvaluateIsSeededPartition ==
    /\ Len(seeds) <= n_problems
    /\ \A k \in 1..Len(seeds) : seeds[k] = seed + k - 1
    /\ rollouts = Len(seeds)
    /\ \A k \in 1..Len(flags) :
         /\ flags[k] <=> k \in Problems(successes)
         /\ ~flags[k] <=> k \in Problems(failures)
    /\ Len(successes) + Len(failures) = Len(flags)
    /\ Problems(successes) \cup Problems(failures) = 1..Len(flags)
    /\ ev_pc \in {"returned", "ZeroDivisionError"} =>
         Len(seeds) = n_problems /\ Len(flags) = n_problems
    /\ ev_pc = "returned" =>
         success_rate.num = Len(successes) /\ success_rate.den = n_problems
    /\ ev_pc = "ZeroDivisionError" <=> (ev_pc # "for" /\ ev_pc # "rollout" /\ n_problems = 0)

\* Two problems evaluated from seed 1: the first solved, the second not.
C20_Witness ==
    /\ ev_pc = "returned"
    /\ seed = 1
    /\ seeds = <<1, 2>>
    /\ successes = <<1>>
    /\ failures = <<2>>
    /\ success_rate = [num |-> 1, den |-> 2]
(* ======================= properties of determinism ======================= *)
\* The unseen next states of the round's actions, in the order of the actions.
InputOrder ==
    LET Unseen(s) == ~InSet(states', s, seen)
    IN SelectSeq([k \in 1..Len(actions') |-> acts'[actions'[k]].next_state], Unseen)

\* C21: the rollout of q_function.py is a function of the root, the responses
\* and the scores: the layer a round appends is the round's candidates sorted
\* by value, candidates of equal value keeping the order of the actions that
\* produced them.
C21_TiesKeepInputOrder ==
    [][ScoringRound => Last(history') = StableSortDesc(states', InputOrder, <<>>)]_vars
(* ======================= properties of max_solution_length ======================= *)
\* The number of edges on the path from the root to state s.
RECURSIVE Edges(_)
Edges(s) ==
    IF states[s].parent_action = 0 THEN 0
    ELSE 1 + Edges(acts[states[s].parent_action].state)

\* The rollout that just returned was a success: the edges up to the states
\* of the beam that reported it.
SolvedEdges == {Edges(beam[k]) : k \in {k \in 1..Len(beam) : rewards[k] # 0}}

\* evaluate takes the result of a rollout.
Classifies == ev_pc = "rollout" /\ ev_pc' = "for"

\* C22: the max_solution_length evaluate reports is the maximum, over the
\* solved problems, of the number of edges on the path from the root to the
\* state that reported success, and 0 if no problem was solved: it starts at 0
\* and every solved problem raises it to that number of edges at least.
C22_MaxSolutionLengthCountsEdges ==
    /\ [](ev_pc = "for" /\ flags = <<>> => max_solution_length = 0)
    /\ [][Classifies =>
            IF success
            THEN \A e \in SolvedEdges :
                   max_solution_length' = Max2(max_solution_length, e)
            ELSE max_solution_length' = max_solution_length]_vars
(* ======================= properties of add_success_action ======================= *)
\* C23: with add_success_action enabled, when a beam state reports a reward
\* beam_search completes normally with SUCCESS_STATE as the solution, and the
\* synthetic 'success' edge into SUCCESS_STATE is credited reward 1.0 (the
\* real edges behind it reward_decay^k).
C23_SuccessActionIsCredited ==
    (add_success_action /\ solution = SUCCESS_STATE) =>
        /\ bs_pc # "raised"
        /\ \E a \in DOMAIN action_reward :
             /\ acts[a].next_state = SUCCESS_STATE
             /\ acts[a].action = "success"
             /\ action_reward[a] = RewardUnit
(* ======================= properties of QLearning.gradient_steps ======================= *)
\* C24: gradient_steps produces a training target for every replay tuple the
\* agent can have stored, one whose next-state action set A1 is empty
\* included: no stored tuple makes the computation of its target raise, and
\* gradient_steps does not raise.
C24_TargetForEveryStoredTuple ==
    /\ \A k \in 1..Len(replay_buffer) : ~TargetRaises(replay_buffer[k])
    /\ ql_pc # "raised"
(* ======================= properties of Environment.step ======================= *)
\* What Environment.step builds for one action a.
StepBuilt(a) ==
    LET s == acts[a].state
        n == acts[a].next_state
    IN /\ s \in 1..Len(states)
       /\ n \in 1..Len(states)
       /\ Len(states[n].facts) = Len(states[s].facts) + 1
       /\ SubSeq(states[n].facts, 1, Len(states[s].facts)) = states[s].facts
       /\ states[n].goals = states[s].goals
       /\ states[n].parent_action = a

\* No object that exists loses or changes its facts, goals, parent_action,
\* or the two ends of an action.
LinksKept ==
    /\ Len(states') >= Len(states)
    /\ Len(acts') >= Len(acts)
    /\ \A s \in 1..Len(states) :
         /\ states'[s].facts = states[s].facts
         /\ states'[s].goals = states[s].goals
         /\ states'[s].parent_action = states[s].parent_action
    /\ \A a \in 1..Len(acts) :
         /\ acts'[a].state = acts[a].state
         /\ acts'[a].next_state = acts[a].next_state

\* C25: for every action a that Environment.step returns for an input state
\* s, a.state is s, a.next_state.facts is s.facts with exactly one fact
\* appended, a.next_state.goals equals s.goals, a.next_state.parent_action is
\* a, s.facts and s.goals are unchanged, and no later operation of the rollout
\* or of recover_solutions reassigns a.next_state.parent_action.
C25_StepLinksAreSetOnce ==
    /\ [](\A a \in 1..Len(acts) : StepBuilt(a))
    /\ [][heap' # heap => LinksKept]_vars

\* Two rounds of a rollout and a walk of recover_solutions have used the links.
C25_Witness ==
    /\ Len(acts) >= 2
    /\ i = 2
    /\ rec_pc = "returned"
    /\ \E j \in 1..Len(solutions) : Len(solutions[j]) = 3
(* ======================= properties of the beam ======================= *)
\* The round's unseen resulting states, as line 65 computes them.
RoundCandidates == Range(InputOrder)

\* C26: in each expansion round of the rollout of q_function.py the new beam
\* consists of the beam_size highest-valued candidates among the round's
\* unseen resulting states (all of them if there are fewer), in descending
\* order of value; the beam never holds more than beam_size states and
\* environment.step is never called with an empty beam.
C26_BeamIsTopCandidates ==
    /\ [](Len(beam) <= beam_size)
    /\ [][ScoringRound =>
            /\ Range(beam') \subseteq RoundCandidates
            /\ Cardinality(Range(beam')) = Len(beam')
            /\ Len(beam') = Min2(beam_size, Cardinality(RoundCandidates))
            /\ \A k \in 1..(Len(beam') - 1) :
                 states'[beam'[k]].value >= states'[beam'[k + 1]].value
            /\ \A b \in Range(beam') : \A c \in RoundCandidates \ Range(beam') :
                 states'[b].value >= states'[c].value]_vars
    /\ [][step_calls' # step_calls => beam # <<>>]_vars

\* A round with two candidates and beam_size 1 kept the better one.
C26_Witness ==
    /\ beam_size = 1
    /\ q_calls = 1
    /\ Len(beam) = 1
    /\ Len(history) = 2
    /\ Len(history[2]) = 2
    /\ states[beam[1]].value > states[history[2][2]].value
(* ======================= properties of the evaluation period ======================= *)
\* A call of proxy.step: the only operation that changes n_steps.
StepCalled == proxy'.n_steps # proxy.n_steps

\* The call made n_steps reach or cross a multiple of evaluate_every.
CrossedMultiple ==
    (proxy'.n_steps \div proxy.evaluate_every) > (proxy.n_steps \div proxy.evaluate_every)

\* C27: proxy.step triggers an evaluation exactly when adding len(states)
\* makes n_steps reach or cross a multiple of evaluate_every, i.e. iff
\* floor(n_after / evaluate_every) > floor(n_before / evaluate_every); at most
\* one evaluation per call; and the evaluation comes before the budget check
\* (a call that ends with EndOfLearning has made its evaluation, and a call
\* whose evaluation raises does not raise EndOfLearning).
C27_EvaluationWhenMultipleCrossed ==
    [][StepCalled =>
         /\ proxy'.n_evaluations =
              proxy.n_evaluations + (IF CrossedMultiple THEN 1 ELSE 0)
         /\ (step_result' = "EndOfLearning" /\ CrossedMultiple =>
               proxy'.n_checkpoints = proxy.n_checkpoints + 1)]_vars

\* A request of two states took n_steps from 1 to 3, over the multiple 2 of
\* evaluate_every without landing on one: the evaluation ran, then the budget ended.
C27_Witness ==
    /\ ea_pc = "EndOfLearning"
    /\ proxy.evaluate_every = 2
    /\ proxy.n_steps = 3
    /\ proxy.max_steps = 3
    /\ beam_len = 2
    /\ proxy.n_evaluations = 2
    /\ proxy.n_checkpoints = 2
(* ======================= properties of full imitation learning ======================= *)
\* C28: with full_imitation_learning set, BeamSearchIterativeDeepening takes
\* no optimizer step during learn_from_environment (every gradient_steps call
\* before the budget ends is a no-op) and takes its gradient steps only in the
\* single learn_from_experience pass after EndOfLearning; without it,
\* learn_from_experience takes none.
C28_ImitationLearnsOnlyAtTheEnd ==
    /\ full_imitation_learning => ~updated.environment
    /\ ~full_imitation_learning => ~updated.experience
    /\ updated.experience =>
         /\ experience_calls = 1
         /\ step_result = "EndOfLearning"
         /\ ea_pc \in {"returned", "raised"}

\* A run under full imitation learning that collected examples of both kinds
\* and took its steps in learn_from_experience alone.
C28_Witness ==
    /\ full_imitation_learning
    /\ ea_pc = "returned"
    /\ n_examples = [pos |-> 1, neg |-> 1]
    /\ updated = [environment |-> FALSE, experience |-> TRUE]
(* ======================= properties of a QLearning episode ======================= *)
Elements(seq) == {seq[k] : k \in 1..Len(seq)}

\* A transition is stored that is not the first of its episode.
LaterTransition ==
    /\ ql_pc = "episode"
    /\ ql_j > 0
    /\ Len(appended') = Len(appended) + 1

\* The transition stored last, t, goes on from the one stored before it, p.
GoesOn(p, t) ==
    /\ acts[t.a0].state = acts[p.a0].next_state
    /\ t.a0 \in Elements(p.A1)

\* C29: within one QLearning episode the stored transitions form a path: the
\* source state of the (j+1)-th is the next_state of the j-th, its action is
\* one of the actions the environment returned for that next_state, and no
\* transition follows one that observed a positive reward.
C29_EpisodeIsAPath ==
    [][LaterTransition =>
         /\ GoesOn(Last(appended), Last(appended'))
         /\ Last(appended).r = 0]_vars
(* ======================= properties of the recovered solutions ======================= *)
\* The environment reported success for state s in the last step call of the rollout.
ReportedSuccess(s) == \E k \in 1..Len(beam) : beam[k] = s /\ rewards[k] # 0

\* The returned paths that end in state s.
PathsEndingIn(s) == {p \in 1..Len(solutions) : Last(solutions[p]) = s}

\* recover_solutions returned, on the history of a successful rollout.
RecoveredAfterSuccess == rec_pc = "returned" /\ success

\* C30: after a successful rollout (q_function.py) in the Environment of
\* agent.py, under the log and under the identity transform, every path that
\* recover_solutions returns ends in a state for which the environment
\* reported success, and every state of the beam that reported success in the
\* final round is the end of exactly one returned path.
C30_SolutionsAreTheSuccesses ==
    RecoveredAfterSuccess =>
        /\ \A p \in 1..Len(solutions) : ReportedSuccess(Last(solutions[p]))
        /\ \A s \in Range(beam) :
             ReportedSuccess(s) => Cardinality(PathsEndingIn(s)) = 1
(* ======================= properties of the proxy's evaluations ======================= *)
\* C31: an evaluation, periodic or final, does not consume learning budget:
\* the evaluator works on the unwrapped environment, so n_steps,
\* n_new_problems and cumulative_reward are the same after evaluate as before
\* it (and at every moment while it runs), no call made during an evaluation
\* raises EndOfLearning, and none triggers a nested evaluation.
C31_EvaluationLeavesTheCounters ==
    /\ last_evaluation.grown = Counters(0, 0, 0)
    /\ evaluation.caller # "none" => CountersNow = evaluation.before
    /\ ~eol_in_eval
    /\ ~nested

\* A periodic evaluation whose evaluator made step calls returned to a proxy
\* that had counted steps, problems and rewards, and the agent goes on.
C31_Witness ==
    /\ last_evaluation.caller = "step"
    /\ last_evaluation.stepped
    /\ proxy.n_steps > 0
    /\ n_new_problems > 0
    /\ cumulative_reward > 0
    /\ ea_pc = "problem"
    /\ step_result = "returned"
====
